---- MODULE Spec2Model ----
(***************************************************************************)
(* Quiz / practice engine of utils.js: the question parser, the            *)
(* localStorage stores (mistake set, progress checkpoints, test history),  *)
(* the two practice controllers built by createBrushLogic (normal practice *)
(* and mistake review) and the mock-exam controller built by               *)
(* createTestLogic, with the auto-advance timeout of each and the timer of *)
(* the exam.                                                               *)
(*                                                                         *)
(* Conventions.  A JavaScript string is modelled as a sequence: a line of  *)
(* a raw record is a record [k, s, m, a] (kind of line, its text, the type *)
(* marker it carries, the answer token after "正确答案:"), and the text of  *)
(* a question is the sequence of the lines that were joined to make it.    *)
(* An answer string such as "AB" is the sequence of its letters.  Array    *)
(* indices are 0-based as in the code; TLA+ sequences are 1-based, so      *)
(* practicePool[i] of the code is practicePool[i + 1] here.                *)
(***************************************************************************)
EXTENDS Integers, Sequences, FiniteSets, TLC

VARIABLES
    ctl,              \* the two createBrushLogic instances, by modeIdentifier
    localStorage,     \* window.localStorage: key -> stored item
    wrongQuestionCount, \* app.wrongQuestionCount (the badge)
    pendingTimeouts,  \* browser timer queue: pending setTimeout callbacks per controller
    testBrush,        \* the createTestLogic instance (app.testBrush)
    intervals,        \* browser timer queue: the number of setInterval timers running
    thrown,           \* an operation of this page raised an exception to its caller
    windowAnswer,     \* window.answer, flattened: the raw records the page was loaded with
    reviewed,         \* per stem: correct reviews since its last wrong answer (history)
    runStart,         \* history: the stems and streaks stored when the review run began
    steps             \* number of state-changing operations so far (bounds the run)

vars == <<ctl, localStorage, wrongQuestionCount, pendingTimeouts, testBrush, intervals,
          thrown, windowAnswer, reviewed, runStart, steps>>

(***************************************************************************)
(* Bounds of the model.                                                    *)
(***************************************************************************)
\* the largest index a caller passes to loadQuestion (the pools hold at most 2)
MaxIndex == 2
\* the number of state-changing operations of a run
MaxSteps == 5
\* the ticks the exam timer counts
MaxElapsed == 2
\* the number of operations of a run that only starts sessions and answers
MaxLifecycleSteps == 8
\* the number of operations of a run of the exam alone
MaxTestSteps == 7
\* how far the sizes of a large bank lie around the quotas of the exam
MaxExtra == 1
\* the number of operations of a run over a large bank
MaxPoolSteps == 1
\* the number of operations of a run over a bank of one question
MaxKeySteps == 7
\* the number of lines of the record drawn for the parser
MaxLines == 3
\* the number of operations of a run on a drawn bank
MaxParseSteps == 1
\* the number of operations of a run of the three controllers together
MaxFrameSteps == 4
\* the length of the banks whose questions are shuffled in every way
MaxShuffle == 3
\* the number of operations of a run on such a bank
MaxShuffleSteps == 3

(***************************************************************************)
(* Lines and raw records of the question bank (window.answer).             *)
(***************************************************************************)
TextLine(s, m) == [k |-> "text", s |-> s, m |-> m, a |-> <<>>]
OptLine(l) == [k |-> "opt", s |-> l, m |-> "none", a |-> <<>>]
AnsLine(a) == [k |-> "ans", s |-> "ans", m |-> "none", a |-> a]
BlankLine == [k |-> "blank", s |-> "", m |-> "none", a |-> <<>>]

\* a single-choice record whose stem takes two lines, answer A
RawS1 == <<TextLine("s1", "none"), TextLine("s1b", "none"), OptLine("A"), OptLine("B"),
           AnsLine(<<"A">>)>>
\* a multiple-choice record, one-line stem, answer AB
RawM1 == <<TextLine("m1", "multiple"), OptLine("A"), OptLine("B"), AnsLine(<<"A", "B">>)>>
\* a record without an answer line: dropped by the parser
RawBad == <<TextLine("x1", "none"), OptLine("A"), OptLine("B")>>

\* window.answer.flatMap(ch => ch.list): the bank holds no judge question
Bank == <<RawS1, RawBad, RawM1>>

Null == [isNull |-> TRUE]

(***************************************************************************)
(* Sequence helpers (Array.prototype.findIndex / splice / sort); filter is  *)
(* SelectSeq.                                                              *)
(***************************************************************************)
\* findIndex, given for each element whether the predicate holds of it:
\* the 0-based index of the first that satisfies it, or -1
FindIndex(hits) ==
    IF \E i \in 1..Len(hits) : hits[i]
    THEN (CHOOSE i \in 1..Len(hits) : hits[i] /\ \A j \in 1..(i - 1) : ~hits[j]) - 1
    ELSE -1

\* s without its element at 0-based index i (Array.prototype.splice(i, 1))
Splice(s, i) == [j \in 1..(Len(s) - 1) |-> IF j <= i THEN s[j] ELSE s[j + 1]]

LetterOrd(l) == CASE l = "A" -> 1 [] l = "B" -> 2 [] l = "C" -> 3 [] l = "D" -> 4 [] OTHER -> 5

RECURSIVE InsertSorted(_, _)
InsertSorted(l, s) ==
    IF s = <<>> THEN <<l>>
    ELSE IF LetterOrd(l) < LetterOrd(Head(s)) THEN <<l>> \o s
         ELSE <<Head(s)>> \o InsertSorted(l, Tail(s))

\* Array.prototype.sort() on an array of letters
RECURSIVE SortLetters(_)
SortLetters(s) == IF s = <<>> THEN <<>> ELSE InsertSorted(Head(s), SortLetters(Tail(s)))

(***************************************************************************)
(* parseQuestion                                                           *)
(***************************************************************************)
IsCleanLine(line) == line.k # "blank"
IsAnswerLine(line) == line.k = "ans"
IsOptionLine(line) == line.k = "opt"

\* parseQuestion that accepts an option line wherever it stands
parseQuestion_AnyOption(qArray) ==
    LET cleanArray == SelectSeq(qArray, IsCleanLine)
        answerIndex == FindIndex([i \in 1..Len(cleanArray) |-> IsAnswerLine(cleanArray[i])])
        firstOptionIndex == FindIndex([i \in 1..Len(cleanArray) |-> IsOptionLine(cleanArray[i])])
    IN  IF Len(cleanArray) < 2 \/ answerIndex = -1 \/ firstOptionIndex = -1 THEN Null
        ELSE [isNull |-> FALSE,
              question |-> SubSeq(cleanArray, 1, firstOptionIndex),
              options |-> SubSeq(cleanArray, firstOptionIndex + 1, answerIndex),
              type |-> IF cleanArray[1].m = "none" THEN "single" ELSE cleanArray[1].m,
              correctAnswer |-> cleanArray[answerIndex + 1].a,
              originalData |-> qArray]

parseQuestion(qArray) ==
    LET cleanArray == SelectSeq(qArray, IsCleanLine)
        answerIndex == FindIndex([i \in 1..Len(cleanArray) |-> IsAnswerLine(cleanArray[i])])
        answerLine == cleanArray[answerIndex + 1]
        tok == answerLine.a
        mainQuestionLine == cleanArray[1]
        type == IF mainQuestionLine.m = "judge" THEN "judge"
                ELSE IF mainQuestionLine.m = "multiple" THEN "multiple"
                ELSE "single"
        firstOptionIndex == FindIndex([i \in 1..Len(cleanArray) |-> IsOptionLine(cleanArray[i])])
    IN  IF Len(qArray) < 2 THEN Null
        ELSE IF Len(cleanArray) < 2 THEN Null
        ELSE IF answerIndex = -1 THEN Null
        ELSE IF tok = <<>> THEN Null
        ELSE IF type = "judge"
             THEN [isNull |-> FALSE,
                   question |-> <<mainQuestionLine>>,
                   options |-> <<OptLine("A"), OptLine("B")>>,
                   type |-> type,
                   correctAnswer |-> IF tok = <<"dui">> THEN <<"A">>
                                     ELSE IF tok = <<"cuo">> THEN <<"B">>
                                     ELSE tok,
                   originalData |-> qArray]
        ELSE IF firstOptionIndex = -1 \/ firstOptionIndex >= answerIndex THEN Null
        ELSE [isNull |-> FALSE,
              question |-> SubSeq(cleanArray, 1, firstOptionIndex),
              options |-> SubSeq(cleanArray, firstOptionIndex + 1, answerIndex),
              type |-> type,
              correctAnswer |-> tok,
              originalData |-> qArray]

NotNull(q) == ~q.isNull

\* app.init: allParsedQuestions = bank.map(parseQuestion).filter(q => q !== null)
AllParsedQuestions ==
    SelectSeq([i \in 1..Len(Bank) |-> parseQuestion(Bank[i])], NotNull)


(***************************************************************************)
(* shuffleArray: the Fisher-Yates walk, i from length-1 down to 1, with    *)
(* r[i] the value of Math.floor(Math.random() * (i + 1)) drawn at step i.  *)
(***************************************************************************)
Swap(array, i, j) == [array EXCEPT ![i + 1] = array[j + 1], ![j + 1] = array[i + 1]]

RECURSIVE ShuffleFrom(_, _, _)
ShuffleFrom(array, i, r) ==
    IF i > 0 THEN ShuffleFrom(Swap(array, i, r[i]), i - 1, r) ELSE array

\* shuffleArray whose walk leaves the last index out
shuffleArray_SkipsLast(array, r) == ShuffleFrom(array, Len(array) - 2, r)

shuffleArray(array, r) == ShuffleFrom(array, Len(array) - 1, r)

\* the possible outcomes of the random draws for an array of n elements
RandomDraws(n) == {r \in [1..(n - 1) -> 0..(n - 1)] : \A i \in 1..(n - 1) : r[i] <= i}

(***************************************************************************)
(* localStorage: keys and stored items.  setItem stores the JSON text of a *)
(* value, getItem returns it or null.                                      *)
(***************************************************************************)
Modes == {"normal_", "wrong_"}
\* the categories the start and continue buttons pass (the bank of this model
\* holds no judge question, so "judge" is a category whose pool is empty)
Types == {"single", "judge", "all"}
NoType == "null"

WRONG_SET_KEY == <<"marxism_wrong_set">>
TEST_HISTORY_KEY == <<"marxism_test_history">>
ProgressKey(m, type) == <<"marxism_progress_", m, type>>
\* every category startPracticeByType filters by
Categories == {"single", "multiple", "judge", "all"}
Keys == {WRONG_SET_KEY, TEST_HISTORY_KEY} \cup {ProgressKey(m, t) : m \in Modes, t \in Categories}

NoItem == [tag |-> "null", v |-> <<>>]
\* a stored text that is not JSON (v: the array it was cut from), and the JSON
\* text of a value that is not an array
BadText(v) == [tag |-> "text", v |-> v]
NotAList == [tag |-> "object", v |-> <<>>]
JSONStringify(v) == [tag |-> "json", v |-> v]
JSONParse(item) == item.v

\* the world the handlers read and write
World == [ctl |-> ctl, ls |-> localStorage, badge |-> wrongQuestionCount,
          timers |-> pendingTimeouts, test |-> testBrush, intervals |-> intervals,
          thrown |-> thrown]

\* the handler's writes, as one of at most bound operations of the run
SetWorldWithin(W, bound) ==
    /\ steps < bound
    /\ \E V \in {W} :
        /\ steps' = IF V = World THEN steps ELSE steps + 1
        /\ ctl' = V.ctl
        /\ localStorage' = V.ls
        /\ wrongQuestionCount' = V.badge
        /\ pendingTimeouts' = V.timers
        /\ testBrush' = V.test
        /\ intervals' = V.intervals
        /\ thrown' = V.thrown
        /\ windowAnswer' = windowAnswer

SetWorld(W) == SetWorldWithin(W, MaxSteps)

WithCtl(W, m, c) == [W EXCEPT !.ctl[m] = c]

\* an exception leaves the handler and reaches its caller
Throw(W) == [W EXCEPT !.thrown = TRUE]

(***************************************************************************)
(* Mistake set store                                                       *)
(***************************************************************************)
Entry(question, n) == [isArray |-> FALSE, question |-> question, consecutiveCorrect |-> n]

\* a legacy item: the bare raw record
LegacyItem(question) == [isArray |-> TRUE, question |-> question]

\* legacy items are bare raw records
UpgradeItem(item) == IF item.isArray THEN Entry(item.question, 0) ELSE item

UpgradeAll(parsedData) == [i \in 1..Len(parsedData) |-> UpgradeItem(parsedData[i])]

\* getWrongSet with the bug of reading what is left of a damaged text
getWrongSet_Salvage(ls) ==
    IF ls[WRONG_SET_KEY].tag = "null" THEN <<>>
    ELSE UpgradeAll(JSONParse(ls[WRONG_SET_KEY]))

\* the try block returns [] for no item; JSON.parse of a text that is not
\* JSON, and map of a value that is not an array, throw into the catch: []
getWrongSet(ls) ==
    IF ls[WRONG_SET_KEY].tag = "null" THEN <<>>
    ELSE IF ls[WRONG_SET_KEY].tag # "json" THEN <<>>
    ELSE UpgradeAll(JSONParse(ls[WRONG_SET_KEY]))

\* history: each stored entry's stem with its consecutiveCorrect
StreaksIn(ls) ==
    {<<getWrongSet(ls)[i].question[1], getWrongSet(ls)[i].consecutiveCorrect>> :
        i \in 1..Len(getWrongSet(ls))}

CountType(qs, type) == Len(SelectSeq(qs, LAMBDA q : q.type = type))

\* getWrongSet().map(item => parseQuestion(item.question)).filter(q => q !== null)
ParseAll(stored) ==
    SelectSeq([i \in 1..Len(stored) |-> parseQuestion(stored[i].question)], NotNull)

\* SetCounts that also replaces the pool of the running session
SetCounts_RefreshPool(W, m, wrongSet) ==
    WithCtl(W, m, [W.ctl[m] EXCEPT
        !.allQuestions = wrongSet,
        !.practicePool = wrongSet,
        !.counts = [single |-> CountType(wrongSet, "single"),
                    multiple |-> CountType(wrongSet, "multiple"),
                    judge |-> CountType(wrongSet, "judge"),
                    total |-> Len(wrongSet)],
        !.isEmpty = (Len(wrongSet) = 0)])

\* checkWrongSetCounts with the questions it parsed
SetCounts(W, m, wrongSet) ==
    WithCtl(W, m, [W.ctl[m] EXCEPT
        !.allQuestions = wrongSet,
        !.counts = [single |-> CountType(wrongSet, "single"),
                    multiple |-> CountType(wrongSet, "multiple"),
                    judge |-> CountType(wrongSet, "judge"),
                    total |-> Len(wrongSet)],
        !.isEmpty = (Len(wrongSet) = 0)])

checkWrongSetCounts(W, m) ==
    IF m # "wrong_" THEN W ELSE SetCounts(W, m, ParseAll(getWrongSet(W.ls)))

updateWrongCount(W) == [W EXCEPT !.badge = Len(getWrongSet(W.ls))]

\* app.init listener of 'wrongset-updated': updateWrongCount, then
\* wrongBrush.checkWrongSetCounts
OnWrongSetUpdated(W) == checkWrongSetCounts(updateWrongCount(W), "wrong_")

\* saveWrongSet with the bug of not raising 'wrongset-updated'
saveWrongSet_Silent(W, set) == [W EXCEPT !.ls[WRONG_SET_KEY] = JSONStringify(set)]

saveWrongSet(W, set) ==
    OnWrongSetUpdated([W EXCEPT !.ls[WRONG_SET_KEY] = JSONStringify(set)])

\* Upsert with the bug of pushing a new entry whether or not one was found
Upsert_AlwaysPush(wrongSet, originalQuestionArray, itemIndex) ==
    Append(wrongSet, Entry(originalQuestionArray, 0))

\* Upsert with the bug of leaving the streak of an entry found as it is
Upsert_KeepsStreak(wrongSet, originalQuestionArray, itemIndex) ==
    IF itemIndex = -1
    THEN Append(wrongSet, Entry(originalQuestionArray, 0))
    ELSE wrongSet

\* the mistake set addQuestionToWrongSet saves
Upsert(wrongSet, originalQuestionArray, itemIndex) ==
    IF itemIndex = -1
    THEN Append(wrongSet, Entry(originalQuestionArray, 0))
    ELSE [wrongSet EXCEPT ![itemIndex + 1].consecutiveCorrect = 0]

StemIndex(wrongSet, questionText) ==
    FindIndex([i \in 1..Len(wrongSet) |-> wrongSet[i].question[1] = questionText])

addQuestionToWrongSet(W, originalQuestionArray) ==
    saveWrongSet(W, Upsert(getWrongSet(W.ls), originalQuestionArray,
                           StemIndex(getWrongSet(W.ls), originalQuestionArray[1])))

(***************************************************************************)
(* createBrushLogic(isWrongSetMode): the controller object and its methods. *)
(* A selection without letters (null, '' or []) is <<>>.                   *)
(***************************************************************************)
EmptyHistory == [i \in {} |-> Null]

NewBrushLogic ==
    [allQuestions |-> <<>>,
     practicePool |-> <<>>,
     currentQuestionIndex |-> -1,
     currentQuestion |-> Null,
     userSelection |-> <<>>,
     isPracticeStarted |-> FALSE,
     isAnswerChecked |-> FALSE,
     isCorrect |-> FALSE,
     stats |-> [correct |-> 0, incorrect |-> 0, total |-> 0],
     autoNextTimeout |-> FALSE,
     counts |-> [single |-> 0, multiple |-> 0, judge |-> 0, total |-> 0],
     isEmpty |-> TRUE,
     answerHistory |-> EmptyHistory,
     practiceType |-> NoType]

hasSavedProgress(ls, m, type) == ls[ProgressKey(m, type)].tag # "null"

Snapshot(c) ==
    [practicePool |-> c.practicePool,
     currentQuestionIndex |-> c.currentQuestionIndex,
     stats |-> c.stats,
     answerHistory |-> c.answerHistory]

\* saveProgress that leaves the mode out of the key
saveProgress_NoMode(W, m) ==
    LET c == W.ctl[m]
    IN  IF ~c.isPracticeStarted \/ c.practiceType = NoType \/ c.currentQuestion.isNull
        THEN W
        ELSE [W EXCEPT !.ls[ProgressKey("normal_", c.practiceType)] = JSONStringify(Snapshot(c))]

saveProgress(W, m) ==
    LET c == W.ctl[m]
    IN  IF ~c.isPracticeStarted \/ c.practiceType = NoType \/ c.currentQuestion.isNull
        THEN W
        ELSE [W EXCEPT !.ls[ProgressKey(m, c.practiceType)] = JSONStringify(Snapshot(c))]

\* type = NoType stands for a call without argument
clearProgress(W, m, type) ==
    LET progressType == IF type # NoType THEN type ELSE W.ctl[m].practiceType
    IN  IF progressType # NoType
        THEN [W EXCEPT !.ls[ProgressKey(m, progressType)] = NoItem]
        ELSE W

\* clearTimeout(this.autoNextTimeout): cancels the timeout the field refers to
ClearAutoNext(W, m) ==
    IF W.ctl[m].autoNextTimeout
    THEN [W EXCEPT !.timers[m].cur = FALSE]
    ELSE W

\* this.autoNextTimeout = setTimeout(() => this.nextQuestion(), 1200): a timeout
\* the field referred to before and that is still pending stays in the queue
SetAutoNext(W, m) ==
    [W EXCEPT !.timers[m] = [cur |-> TRUE,
                             orphans |-> @.orphans + (IF @.cur THEN 1 ELSE 0)],
              !.ctl[m].autoNextTimeout = TRUE]

\* ShowQuestion with the bug of not restoring the recorded answer
ShowQuestion_NoRestore(W, m, index) ==
    saveProgress(WithCtl(W, m, [W.ctl[m] EXCEPT
        !.currentQuestion = W.ctl[m].practicePool[index + 1],
        !.isAnswerChecked = FALSE,
        !.isCorrect = FALSE,
        !.userSelection = <<>>]), m)

\* loadQuestion, in range: the question is shown, a recorded answer restored
ShowQuestion(W, m, index) ==
    LET c == W.ctl[m]
        q == c.practicePool[index + 1]
        recorded == index \in DOMAIN c.answerHistory
    IN  saveProgress(WithCtl(W, m, [c EXCEPT
            !.currentQuestion = q,
            !.isAnswerChecked = recorded,
            !.isCorrect = IF recorded THEN c.answerHistory[index].isCorrect ELSE FALSE,
            !.userSelection = IF recorded THEN c.answerHistory[index].userSelection
                              ELSE <<>>]), m)

\* loadQuestion, out of range: the practice is over
EndPractice(W, m) ==
    clearProgress(WithCtl(W, m, [W.ctl[m] EXCEPT !.currentQuestion = Null]), m, NoType)

\* loadQuestion after the clearTimeout
LoadCleared(W, m, index) ==
    LET c == [W.ctl[m] EXCEPT !.isAnswerChecked = FALSE,
                              !.isCorrect = FALSE,
                              !.currentQuestionIndex = index]
    IN  IF index < 0 \/ index >= Len(c.practicePool)
        THEN EndPractice(WithCtl(W, m, c), m)
        ELSE ShowQuestion(WithCtl(W, m, c), m, index)

loadQuestion(W, m, index) == LoadCleared(ClearAutoNext(W, m), m, index)

\* continuePractice with the state it parsed
RestoreState(W, m, type, savedState) ==
    loadQuestion(WithCtl(W, m, [W.ctl[m] EXCEPT
                     !.practicePool = savedState.practicePool,
                     !.stats = savedState.stats,
                     !.answerHistory = savedState.answerHistory,
                     !.isPracticeStarted = TRUE,
                     !.practiceType = type]),
                 m, savedState.currentQuestionIndex)

continuePractice(W, m, type) ==
    IF W.ls[ProgressKey(m, type)].tag = "null" THEN W
    ELSE IF W.ls[ProgressKey(m, type)].tag = "text" THEN Throw(W)
    ELSE RestoreState(W, m, type, JSONParse(W.ls[ProgressKey(m, type)]))

init(W, m, allParsedQuestions) ==
    checkWrongSetCounts(WithCtl(W, m, [W.ctl[m] EXCEPT !.allQuestions = allParsedQuestions]), m)

\* reset after the clearTimeout
ResetCleared(W, m) ==
    checkWrongSetCounts(WithCtl(W, m, [W.ctl[m] EXCEPT
        !.isPracticeStarted = FALSE,
        !.currentQuestion = Null,
        !.answerHistory = EmptyHistory,
        !.practiceType = NoType]), m)

\* reset with the bug of leaving the timeout pending
reset_KeepsTimeout(W, m) == ResetCleared(W, m)

reset(W, m) == ResetCleared(ClearAutoNext(W, m), m)

\* startPractice that keeps the answers of the run before
startPractice_KeepsAnswers(W, m) ==
    loadQuestion(WithCtl(W, m, [W.ctl[m] EXCEPT !.isPracticeStarted = TRUE,
                                                !.currentQuestionIndex = -1]), m, 0)

startPractice(W, m) ==
    loadQuestion(WithCtl(W, m, [W.ctl[m] EXCEPT !.isPracticeStarted = TRUE,
                                                !.currentQuestionIndex = -1,
                                                !.stats.correct = 0,
                                                !.stats.incorrect = 0,
                                                !.answerHistory = EmptyHistory]), m, 0)

OfType(source, type) == SelectSeq(source, LAMBDA q : q.type = type)

\* BuildPool that puts the judge questions first
BuildPool_JudgeFirst(source, type, rs, rm, rj) ==
    IF type = "all"
    THEN shuffleArray(OfType(source, "judge"), rj)
         \o shuffleArray(OfType(source, "multiple"), rm)
         \o shuffleArray(OfType(source, "single"), rs)
    ELSE shuffleArray(OfType(source, type), rs)

\* the pool startPracticeByType builds; rs, rm, rj are the random draws of the
\* (up to three) shuffles, rs those of the only shuffle when type is not 'all'
BuildPool(source, type, rs, rm, rj) ==
    IF type = "all"
    THEN shuffleArray(OfType(source, "single"), rs)
         \o shuffleArray(OfType(source, "multiple"), rm)
         \o shuffleArray(OfType(source, "judge"), rj)
    ELSE shuffleArray(OfType(source, type), rs)

\* startPracticeByType after clearProgress(type), with the pool it built
StartWithPool(W, m, type, pool) ==
    IF Len(pool) > 0
    THEN startPractice(WithCtl(W, m, [W.ctl[m] EXCEPT !.practiceType = type,
                                                      !.practicePool = pool,
                                                      !.stats.total = Len(pool)]), m)
    ELSE WithCtl(W, m, [W.ctl[m] EXCEPT !.practiceType = type,
                                        !.practicePool = pool,
                                        !.stats.total = Len(pool)])

startPracticeByType(W, m, type, rs, rm, rj) ==
    StartWithPool(clearProgress(W, m, type), m, type,
                  BuildPool(W.ctl[m].allQuestions, type, rs, rm, rj))

prevQuestion(W, m) ==
    IF W.ctl[m].currentQuestionIndex > 0
    THEN loadQuestion(W, m, W.ctl[m].currentQuestionIndex - 1)
    ELSE W

nextQuestion(W, m) ==
    IF W.ctl[m].currentQuestionIndex >= Len(W.ctl[m].practicePool) - 1
    THEN clearProgress(WithCtl(W, m, [W.ctl[m] EXCEPT !.currentQuestion = Null]), m, NoType)
    ELSE loadQuestion(W, m, W.ctl[m].currentQuestionIndex + 1)

\* Grade with the bug of comparing with the answer key as it is written
Grade_KeyAsWritten(q, userSelection) ==
    IF q.type = "multiple"
    THEN SortLetters(userSelection) = q.correctAnswer
    ELSE userSelection = q.correctAnswer

\* the grading rule of checkAnswer, on the selection as it is after the
\* in-place sort of a multiple selection
Grade(q, userSelection) ==
    IF q.type = "multiple"
    THEN SortLetters(userSelection) = SortLetters(q.correctAnswer)
    ELSE userSelection = q.correctAnswer

\* StreakRule with the bug of never removing an entry
StreakRule_NoEviction(wrongSet, itemIndex, isCorrect, recordedCorrect) ==
    IF isCorrect
    THEN IF ~recordedCorrect
         THEN [wrongSet EXCEPT ![itemIndex + 1].consecutiveCorrect = @ + 1]
         ELSE wrongSet
    ELSE [wrongSet EXCEPT ![itemIndex + 1].consecutiveCorrect = 0]

\* StreakRule that evicts one correct answer late
StreakRule_EvictsLate(wrongSet, itemIndex, isCorrect, recordedCorrect) ==
    IF isCorrect
    THEN IF ~recordedCorrect
         THEN IF wrongSet[itemIndex + 1].consecutiveCorrect + 1 > 3
              THEN Splice(wrongSet, itemIndex)
              ELSE [wrongSet EXCEPT ![itemIndex + 1].consecutiveCorrect = @ + 1]
         ELSE wrongSet
    ELSE [wrongSet EXCEPT ![itemIndex + 1].consecutiveCorrect = 0]

\* the mistake-review branch of checkAnswer, the entry found at itemIndex:
\* the streak rule
StreakRule(wrongSet, itemIndex, isCorrect, recordedCorrect) ==
    IF isCorrect
    THEN IF ~recordedCorrect
         THEN IF wrongSet[itemIndex + 1].consecutiveCorrect + 1 >= 3
              THEN Splice(wrongSet, itemIndex)
              ELSE [wrongSet EXCEPT ![itemIndex + 1].consecutiveCorrect = @ + 1]
         ELSE wrongSet
    ELSE [wrongSet EXCEPT ![itemIndex + 1].consecutiveCorrect = 0]

\* the entry of the current question, looked up by the text of the question
FindEntry(wrongSet, q) ==
    FindIndex([i \in 1..Len(wrongSet) |-> <<wrongSet[i].question[1]>> = q.question])

UpdateStreak(W, m, wrongSet) ==
    LET c == W.ctl[m]
        itemIndex == FindEntry(wrongSet, c.currentQuestion)
        idx == c.currentQuestionIndex
        recordedCorrect == idx \in DOMAIN c.answerHistory /\ c.answerHistory[idx].isCorrect
    IN  IF itemIndex > -1
        THEN saveWrongSet(W, StreakRule(wrongSet, itemIndex, c.isCorrect, recordedCorrect))
        ELSE W

\* GradeStep that grades and leaves isAnswerChecked as it was
GradeStep_LeavesUnchecked(W, m) ==
    LET c == W.ctl[m]
        q == c.currentQuestion
        sel == IF q.type = "multiple" THEN SortLetters(c.userSelection) ELSE c.userSelection
    IN  WithCtl(W, m, [c EXCEPT !.userSelection = sel,
                                !.isCorrect = Grade(q, sel)])

\* checkAnswer, its steps in order, each on the state the one before left
\* 1. the answer is graded (a multiple selection is sorted in place)
GradeStep(W, m) ==
    LET c == W.ctl[m]
        q == c.currentQuestion
        sel == IF q.type = "multiple" THEN SortLetters(c.userSelection) ELSE c.userSelection
    IN  WithCtl(W, m, [c EXCEPT !.isAnswerChecked = TRUE,
                                !.userSelection = sel,
                                !.isCorrect = Grade(q, sel)])

\* CountStep that records a mistake in mistake review too
CountStep_AnyMode(W, m) ==
    LET c == W.ctl[m]
    IN  IF c.currentQuestionIndex \in DOMAIN c.answerHistory THEN W
        ELSE IF c.isCorrect
             THEN WithCtl(W, m, [c EXCEPT !.stats.correct = @ + 1])
        ELSE addQuestionToWrongSet(WithCtl(W, m, [c EXCEPT !.stats.incorrect = @ + 1]),
                                   c.currentQuestion.originalData)

\* 2. a first answer at this position is counted, and recorded as a mistake
CountStep(W, m) ==
    LET c == W.ctl[m]
    IN  IF c.currentQuestionIndex \in DOMAIN c.answerHistory THEN W
        ELSE IF c.isCorrect
             THEN WithCtl(W, m, [c EXCEPT !.stats.correct = @ + 1])
        ELSE IF m # "wrong_"
             THEN addQuestionToWrongSet(WithCtl(W, m, [c EXCEPT !.stats.incorrect = @ + 1]),
                                        c.currentQuestion.originalData)
        ELSE WithCtl(W, m, [c EXCEPT !.stats.incorrect = @ + 1])

\* 3. in mistake review the streak of the question is updated
StreakStep(W, m) == IF m = "wrong_" THEN UpdateStreak(W, m, getWrongSet(W.ls)) ELSE W

\* RecordStep that saves the progress and records no answer
RecordStep_SavesOnly(W, m) == saveProgress(W, m)

\* 4. the answer is recorded and the progress saved
RecordStep(W, m) ==
    LET c == W.ctl[m]
        idx == c.currentQuestionIndex
    IN  saveProgress(WithCtl(W, m, [c EXCEPT !.answerHistory =
            [i \in DOMAIN @ \cup {idx} |->
                IF i = idx THEN [userSelection |-> c.userSelection, isCorrect |-> c.isCorrect]
                ELSE @[i]]]), m)

\* AutoStep that moves on after every correct answer
AutoStep_AnyCorrect(W, m, isAutoCheck) ==
    IF W.ctl[m].isCorrect THEN SetAutoNext(W, m) ELSE W

\* AutoStep that moves on after a single question only
AutoStep_SingleOnly(W, m, isAutoCheck) ==
    IF isAutoCheck /\ W.ctl[m].currentQuestion.type = "single" /\ W.ctl[m].isCorrect
    THEN SetAutoNext(W, m)
    ELSE W

\* 5. a correct single or judge answer given by selectAndCheck moves on by itself
AutoStep(W, m, isAutoCheck) ==
    IF isAutoCheck /\ W.ctl[m].currentQuestion.type # "multiple" /\ W.ctl[m].isCorrect
    THEN SetAutoNext(W, m)
    ELSE W

checkAnswer(W, m, isAutoCheck) ==
    IF W.ctl[m].currentQuestion.isNull \/ W.ctl[m].isAnswerChecked THEN W
    ELSE IF W.ctl[m].currentQuestion.type = "multiple" /\ Len(W.ctl[m].userSelection) = 0
         THEN W
    ELSE AutoStep(RecordStep(StreakStep(CountStep(GradeStep(W, m), m), m), m), m, isAutoCheck)

selectAndCheck(W, m, selection) ==
    IF W.ctl[m].isAnswerChecked THEN W
    ELSE checkAnswer(WithCtl(W, m, [W.ctl[m] EXCEPT !.userSelection = selection]), m, TRUE)

(***************************************************************************)
(* createTestLogic(): the mock-exam controller and its methods.  Time is   *)
(* counted in ticks of its 1000 ms interval; the id and date of a result   *)
(* (wall-clock readings) are left out of the record.                       *)
(***************************************************************************)
\* const counts = {single: 50, multiple: 30, judge: 20}
TestCounts == [single |-> 50, multiple |-> 30, judge |-> 20]

NewTestLogic ==
    [allQuestions |-> <<>>,
     practicePool |-> <<>>,
     currentQuestionIndex |-> -1,
     currentQuestion |-> Null,
     userSelection |-> <<>>,
     isPracticeStarted |-> FALSE,
     isAnswerChecked |-> FALSE,
     isCorrect |-> FALSE,
     stats |-> [correct |-> 0, incorrect |-> 0, total |-> 100],
     answerHistory |-> EmptyHistory,
     history |-> <<>>,
     timerInterval |-> FALSE,
     elapsedTime |-> 0,
     lastTestResult |-> Null,
     autoNextTimeout |-> FALSE]

\* JSON.parse of a text that is not JSON throws, and nothing catches it
loadHistory(W) ==
    IF W.ls[TEST_HISTORY_KEY].tag = "null" THEN [W EXCEPT !.test.history = <<>>]
    ELSE IF W.ls[TEST_HISTORY_KEY].tag = "text" THEN Throw(W)
    ELSE [W EXCEPT !.test.history = JSONParse(W.ls[TEST_HISTORY_KEY])]

saveHistory(W) == [W EXCEPT !.ls[TEST_HISTORY_KEY] = JSONStringify(W.test.history)]

testInit(W, allParsedQuestions) ==
    loadHistory([W EXCEPT !.test.allQuestions = allParsedQuestions])

\* setInterval: one more interval runs; the field refers to the new one
startTimer(W) == [W EXCEPT !.intervals = @ + 1, !.test.timerInterval = TRUE]

stopTimer(W) ==
    IF W.test.timerInterval
    THEN [W EXCEPT !.intervals = @ - 1, !.test.timerInterval = FALSE]
    ELSE W

\* the callback of the interval: elapsedTime = Date.now() - startTime
TimerCallback(W) == [W EXCEPT !.test.elapsedTime = @ + 1]

ClearTestAutoNext(W) ==
    IF W.test.autoNextTimeout
    THEN [W EXCEPT !.timers["test"].cur = FALSE]
    ELSE W

SetTestAutoNext(W) ==
    [W EXCEPT !.timers["test"] = [cur |-> TRUE,
                                  orphans |-> @.orphans + (IF @.cur THEN 1 ELSE 0)],
              !.test.autoNextTimeout = TRUE]

\* ((correct / answeredCount) * 100).toFixed(2), in hundredths of a percent
Accuracy(correct, answeredCount) ==
    IF answeredCount > 0
    THEN (2 * 10000 * correct + answeredCount) \div (2 * answeredCount)
    ELSE 0

\* the result finishTest builds
TestResult(t) ==
    [isNull |-> FALSE,
     stats |-> t.stats,
     answeredCount |-> Cardinality(DOMAIN t.answerHistory),
     duration |-> t.elapsedTime,
     accuracy |-> Accuracy(t.stats.correct, Cardinality(DOMAIN t.answerHistory))]

\* a finishTest that pushes its result at the end of the history
RecordResult_Push(W, result) ==
    saveHistory([W EXCEPT !.test.lastTestResult = result,
                          !.test.history = @ \o <<result>>])

\* finishTest with its result: history.unshift(result), saveHistory
RecordResult(W, result) ==
    saveHistory([W EXCEPT !.test.lastTestResult = result,
                          !.test.history = <<result>> \o @])

\* finishTest after stopTimer
FinishStopped(W) == RecordResult([W EXCEPT !.test.currentQuestion = Null], TestResult(W.test))

finishTest(W) == FinishStopped(stopTimer(W))

isLastQuestion(t) == t.currentQuestionIndex = Len(t.practicePool) - 1

\* loadQuestion of the exam, in range: the question is shown, a recorded
\* answer restored
TestShowQuestion(W, index) ==
    LET t == W.test
        recorded == index \in DOMAIN t.answerHistory
    IN  [W EXCEPT !.test.currentQuestion = t.practicePool[index + 1],
                  !.test.isAnswerChecked = recorded,
                  !.test.isCorrect = IF recorded THEN t.answerHistory[index].isCorrect
                                     ELSE FALSE,
                  !.test.userSelection = IF recorded THEN t.answerHistory[index].userSelection
                                         ELSE <<>>]

\* loadQuestion of the exam after the clearTimeout
TestLoadCleared(W, index) ==
    IF index < 0 \/ index >= Len(W.test.practicePool)
    THEN finishTest([W EXCEPT !.test.isAnswerChecked = FALSE,
                              !.test.isCorrect = FALSE,
                              !.test.currentQuestionIndex = index])
    ELSE TestShowQuestion([W EXCEPT !.test.isAnswerChecked = FALSE,
                                    !.test.isCorrect = FALSE,
                                    !.test.currentQuestionIndex = index], index)

testLoadQuestion(W, index) == TestLoadCleared(ClearTestAutoNext(W), index)

testPrevQuestion(W) ==
    IF W.test.currentQuestionIndex > 0
    THEN testLoadQuestion(W, W.test.currentQuestionIndex - 1)
    ELSE W

moveToNextQuestion(W) ==
    IF isLastQuestion(W.test)
    THEN finishTest(W)
    ELSE testLoadQuestion(W, W.test.currentQuestionIndex + 1)

\* reset of the exam after stopTimer and the clearTimeout
TestResetCleared(W) ==
    loadHistory([W EXCEPT !.test.isPracticeStarted = FALSE,
                          !.test.currentQuestion = Null,
                          !.test.answerHistory = EmptyHistory,
                          !.test.lastTestResult = Null])

testReset(W) == TestResetCleared(ClearTestAutoNext(stopTimer(W)))

\* Slice with the bug of keeping one element more
Slice_OneMore(array, n) == SubSeq(array, 1, IF n + 1 < Len(array) THEN n + 1 ELSE Len(array))

\* array.slice(0, n)
Slice(array, n) == SubSeq(array, 1, IF n < Len(array) THEN n ELSE Len(array))

\* the pool startTest builds; rs, rm, rj are the random draws of its shuffles
TestPool(source, rs, rm, rj) ==
    Slice(shuffleArray(OfType(source, "single"), rs), TestCounts.single)
    \o Slice(shuffleArray(OfType(source, "multiple"), rm), TestCounts.multiple)
    \o Slice(shuffleArray(OfType(source, "judge"), rj), TestCounts.judge)

\* startTest with the pool it built
StartTestWithPool(W, pool) ==
    IF Len(pool) = 0
    THEN [W EXCEPT !.test.practicePool = pool, !.test.stats.total = 0]
    ELSE testLoadQuestion(
             startTimer([W EXCEPT !.test.practicePool = pool,
                                  !.test.stats = [correct |-> 0, incorrect |-> 0,
                                                  total |-> Len(pool)],
                                  !.test.isPracticeStarted = TRUE,
                                  !.test.currentQuestionIndex = -1,
                                  !.test.answerHistory = EmptyHistory,
                                  !.test.elapsedTime = 0]), 0)

startTest(W, rs, rm, rj) == StartTestWithPool(W, TestPool(W.test.allQuestions, rs, rm, rj))

\* userSelection of a multiple question with the letter toggled
Toggle(userSelection, selection) ==
    IF \E i \in 1..Len(userSelection) : userSelection[i] = selection
    THEN Splice(userSelection,
                FindIndex([i \in 1..Len(userSelection) |-> userSelection[i] = selection]))
    ELSE Append(userSelection, selection)

\* without a current question the read of its type throws: nothing changes
selectOption(W, selection) ==
    IF W.test.isAnswerChecked THEN W
    ELSE IF W.test.currentQuestion.isNull THEN W
    ELSE IF W.test.currentQuestion.type = "multiple"
         THEN [W EXCEPT !.test.userSelection = Toggle(@, selection)]
    ELSE [W EXCEPT !.test.userSelection = <<selection>>]

\* checkAnswerImmediately, its steps in order
\* 1. the answer is graded (a multiple selection is sorted in place)
TestGradeStep(W) ==
    LET q == W.test.currentQuestion
        sel == IF q.type = "multiple" THEN SortLetters(W.test.userSelection)
               ELSE W.test.userSelection
    IN  [W EXCEPT !.test.isAnswerChecked = TRUE,
                  !.test.userSelection = sel,
                  !.test.isCorrect = Grade(q, sel)]

\* 2. the first answer at this position: counted, recorded as a mistake when wrong
TestCountStep(W) ==
    IF W.test.isCorrect
    THEN [W EXCEPT !.test.stats.correct = @ + 1]
    ELSE addQuestionToWrongSet([W EXCEPT !.test.stats.incorrect = @ + 1],
                               W.test.currentQuestion.originalData)

\* 3. and written to the answer history
TestRecordStep(W) ==
    LET t == W.test
        idx == t.currentQuestionIndex
    IN  [W EXCEPT !.test.answerHistory =
            [i \in DOMAIN @ \cup {idx} |->
                IF i = idx THEN [userSelection |-> t.userSelection, isCorrect |-> t.isCorrect]
                ELSE @[i]]]

TestFirstAnswerStep(W) ==
    IF W.test.currentQuestionIndex \in DOMAIN W.test.answerHistory THEN W
    ELSE TestRecordStep(TestCountStep(W))

\* TestAutoStep under the rule of the practice controllers
TestAutoStep_NotMultiple(W) ==
    IF W.test.isCorrect /\ W.test.currentQuestion.type # "multiple"
    THEN SetTestAutoNext(W)
    ELSE W

\* 4. a correct answer moves on by itself
TestAutoStep(W) == IF W.test.isCorrect THEN SetTestAutoNext(W) ELSE W

\* checkAnswerImmediately with the bug of grading an empty selection
checkAnswerImmediately_Unvalidated(W) ==
    IF W.test.currentQuestion.isNull \/ W.test.isAnswerChecked THEN W
    ELSE TestAutoStep(TestFirstAnswerStep(TestGradeStep(W)))

checkAnswerImmediately(W) ==
    IF W.test.currentQuestion.isNull \/ W.test.isAnswerChecked THEN W
    ELSE IF Len(W.test.userSelection) = 0 THEN W
    ELSE TestAutoStep(TestFirstAnswerStep(TestGradeStep(W)))

(***************************************************************************)
(* The application: app.init builds the controllers over the stored state. *)
(***************************************************************************)
NoTimeouts == [m \in Modes \cup {"test"} |-> [cur |-> FALSE, orphans |-> 0]]

\* app.init on a page load with localStorage ls
\* the rest of app.init after testBrush.init, not run when that threw
InitListeners(W) == IF W.thrown THEN W ELSE updateWrongCount(W)

AppInit(ls) ==
    InitListeners(
        testInit(init(init([ctl |-> [m \in Modes |-> NewBrushLogic], ls |-> ls,
                            badge |-> 0, timers |-> NoTimeouts,
                            test |-> NewTestLogic, intervals |-> 0,
                            thrown |-> FALSE],
                           "normal_", AllParsedQuestions),
                      "wrong_", <<>>),
                 AllParsedQuestions))

\* the mistake sets a page load can find stored: none yet, or one left by
\* earlier visits
InitialWrongSets ==
    {NoItem, JSONStringify(<<Entry(RawM1, 2), Entry(RawS1, 0)>>)}

Stems == {Bank[i][1].s : i \in 1..Len(Bank)}
StemOf(q) == q.originalData[1].s

Init ==
    \E stored \in InitialWrongSets :
        LET W == AppInit([k \in Keys |-> IF k = WRONG_SET_KEY THEN stored ELSE NoItem])
        IN  /\ ctl = W.ctl
            /\ localStorage = W.ls
            /\ wrongQuestionCount = W.badge
            /\ pendingTimeouts = W.timers
            /\ testBrush = W.test
            /\ intervals = W.intervals
            /\ thrown = W.thrown
            /\ reviewed = [s \in Stems |-> -1]
            /\ runStart = StreaksIn(W.ls)
            /\ steps = 0
            /\ windowAnswer = Bank

(***************************************************************************)
(* History of the gradings of each question, as the user sees them:        *)
(* reviewed[s] is 0 once the question with stem s is answered wrong in     *)
(* normal practice, and then counts the correct answers given to it in     *)
(* mistake review, up to 3; it is -1 before, and again after a wrong       *)
(* answer to the question in mistake review or in the exam.                *)
(***************************************************************************)
\* controller m graded its current question in the step from W to V
Graded(W, V, m) ==
    /\ ~W.ctl[m].currentQuestion.isNull
    /\ ~W.ctl[m].isAnswerChecked
    /\ V.ctl[m].isAnswerChecked

ReviewedAfter(W, V, m) ==
    LET s == StemOf(W.ctl[m].currentQuestion)
    IN  IF ~Graded(W, V, m) \/ s \notin DOMAIN reviewed THEN reviewed
        ELSE IF m = "normal_"
             THEN IF V.ctl[m].isCorrect THEN reviewed ELSE [reviewed EXCEPT ![s] = 0]
        ELSE IF reviewed[s] \notin 0..2 THEN reviewed
        ELSE IF V.ctl[m].isCorrect THEN [reviewed EXCEPT ![s] = @ + 1]
        ELSE [reviewed EXCEPT ![s] = -1]

\* a step of controller m that may have graded its question
SetWorldGradedWithin(V, m, bound) ==
    /\ \E U \in {V} :
        /\ SetWorldWithin(U, bound)
        /\ reviewed' = ReviewedAfter(World, U, m)
    /\ UNCHANGED runStart

SetWorldGraded(V, m) == SetWorldGradedWithin(V, m, MaxSteps)

(***************************************************************************)
(* Actions: one per user intent or callback.                               *)
(***************************************************************************)
Letters == {"A", "B"}
\* what the user can tick on a multiple question, in click order
MultiSelections == {<<>>, <<"A">>, <<"B", "A">>}

\* history: a start, continue or reset of the mistake review that did anything
\* ends the run before it: answerHistory is replaced or emptied
RunStartAfter(m) ==
    IF m = "wrong_" /\ steps' # steps THEN StreaksIn(localStorage') ELSE runStart

StartPracticeByTypeWithin(m, type, bound) ==
    /\ \E rs \in RandomDraws(Len(OfType(ctl[m].allQuestions,
                                       IF type = "all" THEN "single" ELSE type))),
          rm \in RandomDraws(IF type = "all"
                             THEN Len(OfType(ctl[m].allQuestions, "multiple")) ELSE 0),
          rj \in RandomDraws(IF type = "all"
                             THEN Len(OfType(ctl[m].allQuestions, "judge")) ELSE 0) :
            SetWorldWithin(startPracticeByType(World, m, type, rs, rm, rj), bound)
    /\ UNCHANGED reviewed
    /\ runStart' = RunStartAfter(m)

StartPracticeByType(m, type) == StartPracticeByTypeWithin(m, type, MaxSteps)

ContinuePracticeWithin(m, type, bound) ==
    /\ SetWorldWithin(continuePractice(World, m, type), bound)
    /\ UNCHANGED reviewed
    /\ runStart' = RunStartAfter(m)

ContinuePractice(m, type) == ContinuePracticeWithin(m, type, MaxSteps)

\* app.jumpToQuestion: a pick in the question list, or any index a caller passes
LoadQuestionWithin(m, index, bound) ==
    /\ SetWorldWithin(loadQuestion(World, m, index), bound)
    /\ UNCHANGED <<reviewed, runStart>>

LoadQuestion(m, index) == LoadQuestionWithin(m, index, MaxSteps)

PrevQuestionWithin(m, bound) ==
    /\ SetWorldWithin(prevQuestion(World, m), bound)
    /\ UNCHANGED <<reviewed, runStart>>

PrevQuestion(m) == PrevQuestionWithin(m, MaxSteps)

NextQuestionWithin(m, bound) ==
    /\ SetWorldWithin(nextQuestion(World, m), bound)
    /\ UNCHANGED <<reviewed, runStart>>

NextQuestion(m) == NextQuestionWithin(m, MaxSteps)

\* the option inputs of a single or judge question call selectAndCheck
SelectAndCheckWithin(m, selection, bound) ==
    /\ ctl[m].isAnswerChecked
       \/ (~ctl[m].currentQuestion.isNull /\ ctl[m].currentQuestion.type # "multiple")
    /\ SetWorldGradedWithin(selectAndCheck(World, m, selection), m, bound)

SelectAndCheck(m, selection) == SelectAndCheckWithin(m, selection, MaxSteps)

\* the checkboxes of a multiple question are bound to userSelection
SetSelectionWithin(m, selection, bound) ==
    /\ ~ctl[m].currentQuestion.isNull
    /\ ctl[m].currentQuestion.type = "multiple"
    /\ ~ctl[m].isAnswerChecked
    /\ SetWorldWithin(WithCtl(World, m, [ctl[m] EXCEPT !.userSelection = selection]), bound)
    /\ UNCHANGED <<reviewed, runStart>>

SetSelection(m, selection) == SetSelectionWithin(m, selection, MaxSteps)

CheckAnswerWithin(m, bound) ==
    /\ SetWorldGradedWithin(checkAnswer(World, m, FALSE), m, bound)

CheckAnswer(m) == CheckAnswerWithin(m, MaxSteps)

ResetWithin(m, bound) ==
    /\ SetWorldWithin(reset(World, m), bound)
    /\ UNCHANGED reviewed
    /\ runStart' = RunStartAfter(m)

Reset(m) == ResetWithin(m, MaxSteps)

\* the 1200 ms timeout set by checkAnswer fires: () => this.nextQuestion()
AutoNextFiresWithin(m, bound) ==
    /\ \/ /\ pendingTimeouts[m].cur
          /\ SetWorldWithin(nextQuestion([World EXCEPT !.timers[m].cur = FALSE], m), bound)
       \/ /\ pendingTimeouts[m].orphans > 0
          /\ SetWorldWithin(nextQuestion([World EXCEPT !.timers[m].orphans = @ - 1], m),
                            bound)
    /\ UNCHANGED <<reviewed, runStart>>

AutoNextFires(m) == AutoNextFiresWithin(m, MaxSteps)

\* the page is loaded again: new controllers over the stored state
ReloadWithin(bound) ==
    /\ SetWorldWithin(AppInit(localStorage), bound)
    /\ UNCHANGED <<reviewed, runStart>>

Reload == ReloadWithin(MaxSteps)

Next ==
    \/ \E m \in Modes, type \in Types : StartPracticeByType(m, type)
    \/ \E m \in Modes, type \in Types : ContinuePractice(m, type)
    \/ \E m \in Modes, index \in 0..MaxIndex : LoadQuestion(m, index)
    \/ \E m \in Modes : PrevQuestion(m)
    \/ \E m \in Modes : NextQuestion(m)
    \/ \E m \in Modes, selection \in Letters : SelectAndCheck(m, <<selection>>)
    \/ \E m \in Modes, selection \in MultiSelections : SetSelection(m, selection)
    \/ \E m \in Modes : CheckAnswer(m)
    \/ \E m \in Modes : AutoNextFires(m)
    \/ \E m \in Modes : Reset(m)
    \/ Reload

Spec == Init /\ [][Next]_vars

\* the exam graded its question in the step from W to V: a wrong answer ends
\* the count of the reviews of the question
TestReviewedAfter(W, V) ==
    IF /\ ~W.test.currentQuestion.isNull
       /\ ~W.test.isAnswerChecked
       /\ V.test.isAnswerChecked
       /\ ~V.test.isCorrect
    THEN [reviewed EXCEPT ![StemOf(W.test.currentQuestion)] = -1]
    ELSE reviewed

\* the operations of the exam, each as one of at most bound operations of the run
StartTestWithin(bound) ==
    /\ \E rs \in RandomDraws(Len(OfType(testBrush.allQuestions, "single"))),
          rm \in RandomDraws(Len(OfType(testBrush.allQuestions, "multiple"))),
          rj \in RandomDraws(Len(OfType(testBrush.allQuestions, "judge"))) :
            SetWorldWithin(startTest(World, rs, rm, rj), bound)
    /\ UNCHANGED <<reviewed, runStart>>

TestLoadQuestionWithin(index, bound) ==
    /\ SetWorldWithin(testLoadQuestion(World, index), bound)
    /\ UNCHANGED <<reviewed, runStart>>

TestPrevQuestionWithin(bound) ==
    /\ SetWorldWithin(testPrevQuestion(World), bound)
    /\ UNCHANGED <<reviewed, runStart>>

MoveToNextQuestionWithin(bound) ==
    /\ SetWorldWithin(moveToNextQuestion(World), bound)
    /\ UNCHANGED <<reviewed, runStart>>

\* the option inputs of the question shown call selectOption
SelectOptionWithin(selection, bound) ==
    /\ ~testBrush.currentQuestion.isNull
    /\ SetWorldWithin(selectOption(World, selection), bound)
    /\ UNCHANGED <<reviewed, runStart>>

CheckAnswerImmediatelyWithin(bound) ==
    /\ SetWorldWithin(checkAnswerImmediately(World), bound)
    /\ reviewed' = TestReviewedAfter(World, checkAnswerImmediately(World))
    /\ UNCHANGED runStart

TestResetWithin(bound) ==
    /\ SetWorldWithin(testReset(World), bound)
    /\ UNCHANGED <<reviewed, runStart>>

\* the 1200 ms timeout set by checkAnswerImmediately fires
TestAutoNextFiresWithin(bound) ==
    /\ \/ /\ pendingTimeouts["test"].cur
          /\ SetWorldWithin(moveToNextQuestion([World EXCEPT !.timers["test"].cur = FALSE]),
                            bound)
       \/ /\ pendingTimeouts["test"].orphans > 0
          /\ SetWorldWithin(moveToNextQuestion([World EXCEPT
                                !.timers["test"].orphans = @ - 1]), bound)
    /\ UNCHANGED <<reviewed, runStart>>

\* an interval set by startTimer fires
TimerFiresWithin(bound) ==
    /\ intervals > 0
    /\ testBrush.elapsedTime < MaxElapsed
    /\ SetWorldWithin(TimerCallback(World), bound)
    /\ UNCHANGED <<reviewed, runStart>>

StartTest == StartTestWithin(MaxSteps)
TestLoadQuestion(index) == TestLoadQuestionWithin(index, MaxSteps)
TestPrevQuestion == TestPrevQuestionWithin(MaxSteps)
MoveToNextQuestion == MoveToNextQuestionWithin(MaxSteps)
SelectOption(selection) == SelectOptionWithin(selection, MaxSteps)
CheckAnswerImmediately == CheckAnswerImmediatelyWithin(MaxSteps)
TestReset == TestResetWithin(MaxSteps)
TestAutoNextFires == TestAutoNextFiresWithin(MaxSteps)
TimerFires == TimerFiresWithin(MaxSteps)

\* the exam alone, under any sequence of its operations and callbacks
NextTest ==
    \/ StartTestWithin(MaxTestSteps)
    \/ \E index \in 0..MaxIndex : TestLoadQuestionWithin(index, MaxTestSteps)
    \/ TestPrevQuestionWithin(MaxTestSteps)
    \/ MoveToNextQuestionWithin(MaxTestSteps)
    \/ \E selection \in Letters : SelectOptionWithin(selection, MaxTestSteps)
    \/ CheckAnswerImmediatelyWithin(MaxTestSteps)
    \/ TestResetWithin(MaxTestSteps)
    \/ TestAutoNextFiresWithin(MaxTestSteps)
    \/ TimerFiresWithin(MaxTestSteps)

SpecTest == Init /\ [][NextTest]_vars

\* the exam among the other users of localStorage: page loads, and normal
\* practice during the first MaxSteps operations
NextHistory ==
    \/ NextTest
    \/ ReloadWithin(MaxTestSteps)
    \/ \E type \in Types : StartPracticeByType("normal_", type)
    \/ \E selection \in Letters : SelectAndCheck("normal_", <<selection>>)
    \/ Reset("normal_")

SpecHistory == Init /\ [][NextHistory]_vars

\* the operations of the practice controllers alone: no reset, no page load
NextOps ==
    \/ \E m \in Modes, type \in Types : StartPracticeByType(m, type)
    \/ \E m \in Modes, type \in Types : ContinuePractice(m, type)
    \/ \E m \in Modes, index \in 0..MaxIndex : LoadQuestion(m, index)
    \/ \E m \in Modes : PrevQuestion(m)
    \/ \E m \in Modes : NextQuestion(m)
    \/ \E m \in Modes, selection \in Letters : SelectAndCheck(m, <<selection>>)
    \/ \E m \in Modes, selection \in MultiSelections : SetSelection(m, selection)
    \/ \E m \in Modes : CheckAnswer(m)
    \/ \E m \in Modes : AutoNextFires(m)

SpecOps == Init /\ [][NextOps]_vars

\* a user who only starts sessions and answers single-choice questions
StartSession(m, type) ==
    /\ \E rs \in RandomDraws(Len(OfType(ctl[m].allQuestions,
                                       IF type = "all" THEN "single" ELSE type))),
          rm \in RandomDraws(IF type = "all"
                             THEN Len(OfType(ctl[m].allQuestions, "multiple")) ELSE 0),
          rj \in RandomDraws(IF type = "all"
                             THEN Len(OfType(ctl[m].allQuestions, "judge")) ELSE 0) :
            SetWorldWithin(startPracticeByType(World, m, type, rs, rm, rj),
                           MaxLifecycleSteps)
    /\ UNCHANGED reviewed
    /\ runStart' = RunStartAfter(m)

AnswerQuestion(m, selection) ==
    /\ ~ctl[m].currentQuestion.isNull
    /\ ctl[m].currentQuestion.type # "multiple"
    /\ SetWorldWithin(selectAndCheck(World, m, selection), MaxLifecycleSteps)
    /\ reviewed' = ReviewedAfter(World, selectAndCheck(World, m, selection), m)
    /\ UNCHANGED runStart

NextLifecycle ==
    \/ \E m \in Modes, type \in Types : StartSession(m, type)
    \/ \E m \in Modes, selection \in Letters : AnswerQuestion(m, <<selection>>)

SpecLifecycle == Init /\ [][NextLifecycle]_vars

\* the three controllers side by side, answering questions
NextGrading ==
    \/ \E m \in Modes, type \in Types : StartPracticeByType(m, type)
    \/ \E m \in Modes : NextQuestion(m)
    \/ \E m \in Modes, selection \in Letters : SelectAndCheck(m, <<selection>>)
    \/ \E m \in Modes, selection \in MultiSelections : SetSelection(m, selection)
    \/ \E m \in Modes : CheckAnswer(m)
    \/ \E m \in Modes : AutoNextFires(m)
    \/ StartTest
    \/ MoveToNextQuestion
    \/ \E selection \in Letters : SelectOption(selection)
    \/ CheckAnswerImmediately
    \/ TestAutoNextFires

SpecGrading == Init /\ [][NextGrading]_vars

\* every operation of the application
NextAll ==
    \/ Next
    \/ NextGrading
    \/ \E index \in 0..MaxIndex : TestLoadQuestion(index)
    \/ TestPrevQuestion
    \/ TestReset
    \/ TimerFires

SpecAll == Init /\ [][NextAll]_vars

(***************************************************************************)
(* Properties                                                              *)
(***************************************************************************)
Loaded(m) == ~ctl[m].currentQuestion.isNull
Answered(m) == ctl[m].stats.correct + ctl[m].stats.incorrect
StoredWrongSet == getWrongSet(localStorage)

\* C1: in a practice controller, whenever a question is loaded, stats.correct +
\* stats.incorrect is the number of AnswerRecords in answerHistory and is at
\* most stats.total.
C1_StatsCountHistory ==
    \A m \in Modes :
        Loaded(m) =>
            /\ Answered(m) = Cardinality(DOMAIN ctl[m].answerHistory)
            /\ Answered(m) <= ctl[m].stats.total

\* controller m moves to a question: prev, next, a jump, or the timeout firing
NavStep(m) ==
    \/ PrevQuestion(m)
    \/ NextQuestion(m)
    \/ \E index \in 0..MaxIndex : LoadQuestion(m, index)
    \/ AutoNextFires(m)

\* controller m is asked to grade: checkAnswer() or selectAndCheck(letter)
GradeCall(m) ==
    \/ CheckAnswer(m)
    \/ \E selection \in Letters : SelectAndCheck(m, <<selection>>)

\* controller c shows the AnswerRecord of its position as checked
ShowsRecord(c) ==
    /\ c.isAnswerChecked
    /\ c.userSelection = c.answerHistory[c.currentQuestionIndex].userSelection
    /\ c.isCorrect = c.answerHistory[c.currentQuestionIndex].isCorrect

\* C2: navigation changes neither stats, nor the answer history, nor the stored
\* mistake set, and a question it loads at a graded position is shown checked
\* with exactly the stored AnswerRecord; a grading call on a checked position
\* changes nothing.
C2_IdempotentNavigation ==
    [][\A m \in Modes :
        /\ NavStep(m) =>
            /\ ctl'[m].stats = ctl[m].stats
            /\ ctl'[m].answerHistory = ctl[m].answerHistory
            /\ localStorage'[WRONG_SET_KEY] = localStorage[WRONG_SET_KEY]
            /\ (~ctl'[m].currentQuestion.isNull
                /\ ctl'[m].currentQuestionIndex \in DOMAIN ctl'[m].answerHistory)
               => ShowsRecord(ctl'[m])
        /\ (ctl[m].isAnswerChecked /\ GradeCall(m)) =>
            UNCHANGED <<ctl, localStorage, wrongQuestionCount, pendingTimeouts>>
      ]_vars

\* C2 witness: position 0 of a two-question pool was answered correctly by
\* selectAndCheck, left, and is shown again with its record, no timeout pending
C2_Witness ==
    \E m \in Modes :
        /\ Loaded(m)
        /\ Len(ctl[m].practicePool) = 2
        /\ ctl[m].currentQuestionIndex = 0
        /\ 0 \in DOMAIN ctl[m].answerHistory
        /\ ctl[m].answerHistory[0].isCorrect
        /\ ctl[m].currentQuestion.type = "single"
        /\ ShowsRecord(ctl[m])
        /\ ctl[m].autoNextTimeout
        /\ ~pendingTimeouts[m].cur

\* the mistake-review controller grades its question for the first time
FirstReviewGrading ==
    /\ GradeCall("wrong_")
    /\ Loaded("wrong_")
    /\ ~ctl["wrong_"].isAnswerChecked
    /\ ctl'["wrong_"].isAnswerChecked
    /\ ctl["wrong_"].currentQuestionIndex \notin DOMAIN ctl["wrong_"].answerHistory

\* what the streak rule of the claim makes of mistake set ws, entry i graded
StreakOutcome(ws, i, correct) ==
    IF ~correct THEN [ws EXCEPT ![i + 1].consecutiveCorrect = 0]
    ELSE IF ws[i + 1].consecutiveCorrect = 2 THEN Splice(ws, i)
    ELSE IF ws[i + 1].consecutiveCorrect < 2
         THEN [ws EXCEPT ![i + 1].consecutiveCorrect = @ + 1]
    ELSE ws

HasEntry(s) == \E i \in 1..Len(StoredWrongSet) : StoredWrongSet[i].question[1].s = s
EntryOf(s) ==
    StoredWrongSet[CHOOSE i \in 1..Len(StoredWrongSet) : StoredWrongSet[i].question[1].s = s]

C4_MistakeLifecycle ==
    \A s \in Stems :
        /\ reviewed[s] = 0 => (HasEntry(s) /\ EntryOf(s).consecutiveCorrect = 0)
        /\ reviewed[s] \in 1..2 => HasEntry(s)
        /\ reviewed[s] = 3 => ~HasEntry(s)

\* C5: the stored mistake set never holds two entries with the same stem line
\* (the first line of the raw record), whatever the normal, the review and the
\* mock-exam controller graded, in whatever order.
C5_OneEntryPerStem ==
    \A i, j \in 1..Len(StoredWrongSet) :
        StoredWrongSet[i].question[1] = StoredWrongSet[j].question[1] => i = j

\* C5 witness: question s1 was answered wrong in normal practice and is shown
\* answered wrong by the exam too, and the mistake set holds its entry
C5_Witness ==
    /\ Loaded("normal_")
    /\ StemOf(ctl["normal_"].currentQuestion) = "s1"
    /\ ctl["normal_"].isAnswerChecked
    /\ ~ctl["normal_"].isCorrect
    /\ ~testBrush.currentQuestion.isNull
    /\ StemOf(testBrush.currentQuestion) = "s1"
    /\ testBrush.isAnswerChecked
    /\ ~testBrush.isCorrect
    /\ testBrush.stats.incorrect = 1
    /\ HasEntry("s1")

Running(m) == ctl[m].isPracticeStarted /\ Loaded(m) /\ ctl[m].practiceType \in Types

\* controller d (of the world continuePractice left) has the session of c back
Resumed(d, c) ==
    /\ d.practicePool = c.practicePool
    /\ d.currentQuestionIndex = c.currentQuestionIndex
    /\ d.stats = c.stats
    /\ d.answerHistory = c.answerHistory
    /\ c.currentQuestionIndex \in DOMAIN c.answerHistory
       => (~d.currentQuestion.isNull /\ ShowsRecord(d))

\* C6: a running session with a loaded question that is interrupted, by reset
\* or by a new controller, is restored by continuePractice of its category:
\* same pool in the same order, same index, same stats, same answer history,
\* and the record of the position shown as checked.
C6_CheckpointRoundTrip ==
    \A m \in Modes :
        Running(m) =>
            /\ Resumed(continuePractice(reset(World, m), m, ctl[m].practiceType).ctl[m],
                       ctl[m])
            /\ Resumed(continuePractice(AppInit(localStorage), m,
                                        ctl[m].practiceType).ctl[m],
                       ctl[m])

\* C7: while a session runs with a loaded question, the stored checkpoint of
\* (mode, practiceType) exists and is the snapshot of the controller.
C7_CheckpointIsSnapshot ==
    \A m \in Modes :
        Running(m) =>
            /\ hasSavedProgress(localStorage, m, ctl[m].practiceType)
            /\ JSONParse(localStorage[ProgressKey(m, ctl[m].practiceType)]) = Snapshot(ctl[m])

\* the session of controller m is over: started, no question, checkpoint gone
Completed(m) ==
    /\ ctl[m].isPracticeStarted
    /\ ~Loaded(m)
    /\ ctl[m].practiceType \in Types
    /\ ~hasSavedProgress(localStorage, m, ctl[m].practiceType)

\* a step of controller m that ends its session
CompletionStep(m) ==
    /\ ctl[m].isPracticeStarted
    /\ ctl[m].practiceType \in Types
    /\ \/ /\ ctl[m].currentQuestionIndex >= Len(ctl[m].practicePool) - 1
          /\ NextQuestion(m) \/ AutoNextFires(m)
       \/ \E index \in 0..MaxIndex :
            index >= Len(ctl[m].practicePool) /\ LoadQuestion(m, index)

\* C8: a session that completes has no current question and no checkpoint,
\* and hasSavedProgress of its category stays false until startPracticeByType
\* of that category is called again.
C8_CompletedStaysCleared ==
    [][\A m \in Modes :
        /\ CompletionStep(m) =>
            (ctl'[m].currentQuestion.isNull
             /\ ~hasSavedProgress(localStorage', m, ctl[m].practiceType))
        /\ (Completed(m) /\ ~StartPracticeByType(m, ctl[m].practiceType)) =>
            ~hasSavedProgress(localStorage', m, ctl[m].practiceType)
      ]_vars

\* C9: reset leaves no timeout pending and the controller idle (no question,
\* empty answer history, no category), and changes nothing in localStorage:
\* every checkpoint and the mistake set stay as they were.
C9_ResetKeepsStorage ==
    [][\A m \in Modes :
        Reset(m) =>
            /\ ~pendingTimeouts'[m].cur
            /\ pendingTimeouts'[m].orphans = 0
            /\ ~ctl'[m].isPracticeStarted
            /\ ctl'[m].currentQuestion.isNull
            /\ ctl'[m].answerHistory = EmptyHistory
            /\ ctl'[m].practiceType = NoType
            /\ localStorage' = localStorage
            /\ \A type \in Types :
                hasSavedProgress(localStorage', m, type) = hasSavedProgress(localStorage, m, type)
      ]_vars

\* C9 witness: a controller reset out of a session: idle, its pool still in
\* memory, a checkpoint still stored, the timeout it had set not pending
C9_Witness ==
    \E m \in Modes :
        /\ ~ctl[m].isPracticeStarted
        /\ ctl[m].practiceType = NoType
        /\ ~Loaded(m)
        /\ ctl[m].practicePool # <<>>
        /\ ctl[m].answerHistory = EmptyHistory
        /\ ctl[m].autoNextTimeout
        /\ ~pendingTimeouts[m].cur
        /\ \E type \in Types : hasSavedProgress(localStorage, m, type)

\* the number of questions startPracticeByType(type) finds for its pool
PoolSize(m, type) ==
    IF type = "all" THEN Len(ctl[m].allQuestions) ELSE Len(OfType(ctl[m].allQuestions, type))

\* C10: startPracticeByType on an empty filtered pool changes nothing: not the
\* session state of the controller, not localStorage.
C10_EmptyStartIsNoOp ==
    [][\A m \in Modes, type \in Types :
        (PoolSize(m, type) = 0 /\ StartPracticeByType(m, type)) =>
            /\ ctl'[m].isPracticeStarted = ctl[m].isPracticeStarted
            /\ ctl'[m].practicePool = ctl[m].practicePool
            /\ ctl'[m].currentQuestion = ctl[m].currentQuestion
            /\ ctl'[m].practiceType = ctl[m].practiceType
            /\ ctl'[m].stats = ctl[m].stats
            /\ localStorage' = localStorage
      ]_vars

(***************************************************************************)
(* Properties of the mock exam                                             *)
(***************************************************************************)
\* the test history as stored
StoredHistory ==
    IF localStorage[TEST_HISTORY_KEY].tag = "null" THEN <<>>
    ELSE JSONParse(localStorage[TEST_HISTORY_KEY])

\* an exam run is started and not yet finished
RunInProgress == testBrush.isPracticeStarted /\ ~testBrush.currentQuestion.isNull

\* C11: a run in progress that finishes appends exactly one TestResult to the
\* stored test history, and the auto-advance callback never appends one for a
\* run that has already finished (the user acting on the question shown, the
\* callback firing whenever it is pending).
C11_OneResultPerRun ==
    [][/\ (RunInProgress /\ StoredHistory' # StoredHistory) =>
            Len(StoredHistory') = Len(StoredHistory) + 1
       /\ (TestAutoNextFiresWithin(MaxTestSteps) /\ StoredHistory' # StoredHistory) =>
            RunInProgress
      ]_vars

(***************************************************************************)
(* The exam over banks large enough for its quotas: the bank holds j judge *)
(* records, then m multiple records, then s single records, the sizes      *)
(* around the quotas of startTest; the shuffles draw from a small family.  *)
(***************************************************************************)
RawOfKind(kind, n) ==
    IF kind = "judge"
    THEN <<TextLine(ToString(n), "judge"), AnsLine(<<"dui">>)>>
    ELSE IF kind = "multiple"
    THEN <<TextLine(ToString(n), "multiple"), OptLine("A"), OptLine("B"),
           AnsLine(<<"A", "B">>)>>
    ELSE <<TextLine(ToString(n), "none"), OptLine("A"), OptLine("B"), AnsLine(<<"A">>)>>

BankOf(s, m, j) ==
    [i \in 1..j |-> RawOfKind("judge", i)]
    \o [i \in 1..m |-> RawOfKind("multiple", j + i)]
    \o [i \in 1..s |-> RawOfKind("single", j + m + i)]

\* allParsedQuestions of a bank
ParseBank(bank) == SelectSeq([i \in 1..Len(bank) |-> parseQuestion(bank[i])], NotNull)

\* the sizes tried for a kind whose quota is quota: none, and around the quota
SizesAround(quota) == {0} \cup ((quota - MaxExtra)..(quota + MaxExtra))

\* two outcomes of the random draws for an array of n elements
DrawFamily(n) == {[i \in 1..(n - 1) |-> 0], [i \in 1..(n - 1) |-> i \div 2]}

InitPool ==
    \E s \in SizesAround(TestCounts.single), m \in SizesAround(TestCounts.multiple),
       j \in SizesAround(TestCounts.judge) :
        LET W == testInit(AppInit([k \in Keys |-> NoItem]), ParseBank(BankOf(s, m, j)))
        IN  /\ ctl = W.ctl
            /\ localStorage = W.ls
            /\ wrongQuestionCount = W.badge
            /\ pendingTimeouts = W.timers
            /\ testBrush = W.test
            /\ intervals = W.intervals
            /\ thrown = W.thrown
            /\ reviewed = [x \in Stems |-> -1]
            /\ runStart = StreaksIn(W.ls)
            /\ steps = 0
            /\ windowAnswer = BankOf(s, m, j)

StartTestDrawn ==
    /\ \E rs \in DrawFamily(Len(OfType(testBrush.allQuestions, "single"))),
          rm \in DrawFamily(Len(OfType(testBrush.allQuestions, "multiple"))),
          rj \in DrawFamily(Len(OfType(testBrush.allQuestions, "judge"))) :
            SetWorldWithin(startTest(World, rs, rm, rj), MaxPoolSteps)
    /\ UNCHANGED <<reviewed, runStart>>

NextPool == StartTestDrawn

SpecPool == InitPool /\ [][NextPool]_vars

Min(a, b) == IF a < b THEN a ELSE b

\* the questions of pool from position from + 1, n of them, are of kind type
AllOfType(pool, from, n, type) == \A i \in (from + 1)..(from + n) : pool[i].type = type

\* C12: the pool of a started exam holds min(50, s) single questions, then
\* min(30, m) multiple questions, then min(20, j) judge questions, s, m and j
\* the numbers of questions of each kind in the bank; its questions are
\* questions of the bank, no one twice; stats.total is its length.
C12_PoolComposition ==
    testBrush.isPracticeStarted =>
        LET pool == testBrush.practicePool
            ns == Min(50, Len(OfType(testBrush.allQuestions, "single")))
            nm == Min(30, Len(OfType(testBrush.allQuestions, "multiple")))
            nj == Min(20, Len(OfType(testBrush.allQuestions, "judge")))
        IN  /\ Len(pool) = ns + nm + nj
            /\ AllOfType(pool, 0, ns, "single")
            /\ AllOfType(pool, ns, nm, "multiple")
            /\ AllOfType(pool, ns + nm, nj, "judge")
            /\ \A i \in 1..Len(pool) :
                    \E k \in 1..Len(testBrush.allQuestions) :
                        testBrush.allQuestions[k] = pool[i]
            /\ \A i, k \in 1..Len(pool) : pool[i] = pool[k] => i = k
            /\ testBrush.stats.total = Len(pool)

\* C12 witness: an exam started over a bank with more questions of every kind
\* than the quotas: its pool holds 100 questions, the last a judge question
C12_Witness ==
    /\ testBrush.isPracticeStarted
    /\ Len(OfType(testBrush.allQuestions, "single")) > 50
    /\ Len(OfType(testBrush.allQuestions, "multiple")) > 30
    /\ Len(OfType(testBrush.allQuestions, "judge")) > 20
    /\ Len(testBrush.practicePool) = 100
    /\ testBrush.practicePool[100].type = "judge"

\* C13: startTest on a bank without questions changes nothing in the
\* controller (not started, pool, stats, no question, no timer) and nothing
\* in the stored test history.
C13_EmptyTestIsNoOp ==
    [][(Len(testBrush.allQuestions) = 0 /\ StartTestDrawn) =>
        /\ testBrush'.isPracticeStarted = testBrush.isPracticeStarted
        /\ testBrush'.practicePool = testBrush.practicePool
        /\ testBrush'.stats = testBrush.stats
        /\ testBrush'.currentQuestion = testBrush.currentQuestion
        /\ testBrush'.timerInterval = testBrush.timerInterval
        /\ intervals' = intervals
        /\ StoredHistory' = StoredHistory
      ]_vars

\* accuracy, in hundredths of a percent, is correct / answeredCount to two
\* decimals of the percentage
IsRatio(accuracy, correct, answeredCount) ==
    /\ 2 * (accuracy * answeredCount - 10000 * correct) <= answeredCount
    /\ 2 * (10000 * correct - accuracy * answeredCount) <= answeredCount

\* result is what the claim says of a TestResult recorded for controller t
ResultCounts(result, t) ==
    /\ result.answeredCount = Cardinality(DOMAIN t.answerHistory)
    /\ result.answeredCount = result.stats.correct + result.stats.incorrect
    /\ result.answeredCount = 0 => result.accuracy = 0
    /\ result.answeredCount > 0 =>
            IsRatio(result.accuracy, result.stats.correct, result.answeredCount)

\* C14: the TestResult a finishTest records has answeredCount equal to the
\* number of entries of answerHistory and to stats.correct + stats.incorrect
\* of its snapshot, accuracy 0.00% when nothing was answered and the ratio
\* correct / answeredCount otherwise.
C14_ResultCounts ==
    [][Len(StoredHistory') > Len(StoredHistory) =>
        ResultCounts(StoredHistory'[1], testBrush)
      ]_vars

\* C15: the persisted test history is append-only and newest-first: every
\* operation of every controller leaves it as it is or puts one new
\* TestResult in front of the results recorded before, which stay unaltered
\* and in their order.
C15_HistoryAppendOnly ==
    [][\/ StoredHistory' = StoredHistory
       \/ /\ Len(StoredHistory') = Len(StoredHistory) + 1
          /\ Tail(StoredHistory') = StoredHistory
      ]_vars

\* two runs are recorded, the later one with other stats than the earlier,
\* and the exam was reset since
C15_Witness ==
    /\ Len(StoredHistory) = 2
    /\ StoredHistory[1].stats # StoredHistory[2].stats
    /\ ~testBrush.isPracticeStarted
    /\ testBrush.lastTestResult.isNull

(***************************************************************************)
(* A bank of one question, of any kind and with any answer key: the        *)
(* question is practised and examined.                                     *)
(***************************************************************************)
\* the answers a record of the bank can give after "正确答案:"
AnswerKeys == {<<"A">>, <<"B">>, <<"A", "B">>, <<"B", "A">>, <<"dui">>, <<"cuo">>}
\* what the user can tick on a multiple question, in any click order
ClickOrders == {<<>>, <<"A">>, <<"B">>, <<"A", "B">>, <<"B", "A">>}

KeyedRecord(kind, key) ==
    IF kind = "judge"
    THEN <<TextLine("m1", "judge"), AnsLine(key)>>
    ELSE <<TextLine("m1", IF kind = "multiple" THEN "multiple" ELSE "none"),
           OptLine("A"), OptLine("B"), AnsLine(key)>>

InitKey ==
    \E kind \in {"single", "multiple", "judge"}, key \in AnswerKeys :
        LET parsed == ParseBank(<<KeyedRecord(kind, key)>>)
            W == testInit(init(AppInit([k \in Keys |-> NoItem]), "normal_", parsed), parsed)
        IN  /\ ctl = W.ctl
            /\ localStorage = W.ls
            /\ wrongQuestionCount = W.badge
            /\ pendingTimeouts = W.timers
            /\ testBrush = W.test
            /\ intervals = W.intervals
            /\ thrown = W.thrown
            /\ reviewed = [x \in Stems |-> -1]
            /\ runStart = StreaksIn(W.ls)
            /\ steps = 0
            /\ windowAnswer = <<KeyedRecord(kind, key)>>

NextKey ==
    \/ StartPracticeByTypeWithin("normal_", "all", MaxKeySteps)
    \/ \E selection \in Letters : SelectAndCheckWithin("normal_", <<selection>>, MaxKeySteps)
    \/ \E selection \in ClickOrders : SetSelectionWithin("normal_", selection, MaxKeySteps)
    \/ CheckAnswerWithin("normal_", MaxKeySteps)
    \/ StartTestWithin(MaxKeySteps)
    \/ \E selection \in Letters : SelectOptionWithin(selection, MaxKeySteps)
    \/ CheckAnswerImmediatelyWithin(MaxKeySteps)

SpecKey == InitKey /\ [][NextKey]_vars

LettersOf(s) == {s[i] : i \in 1..Len(s)}

\* the grading rule as stated: sets of letters for a multiple question, the
\* letter itself for the other kinds
RuleCorrect(q, userSelection) ==
    IF q.type = "multiple"
    THEN LettersOf(userSelection) = LettersOf(q.correctAnswer)
    ELSE userSelection = q.correctAnswer

\* C16: in the practice controller and in the exam alike, a graded multiple
\* question is correct iff the set of the selected letters is the set of the
\* letters of correctAnswer, whatever the order of the selection, and a
\* graded single or judge question is correct iff the selected letter is
\* correctAnswer.
C16_GradingRule ==
    /\ (~ctl["normal_"].currentQuestion.isNull /\ ctl["normal_"].isAnswerChecked) =>
            (ctl["normal_"].isCorrect
                <=> RuleCorrect(ctl["normal_"].currentQuestion, ctl["normal_"].userSelection))
    /\ (~testBrush.currentQuestion.isNull /\ testBrush.isAnswerChecked) =>
            (testBrush.isCorrect
                <=> RuleCorrect(testBrush.currentQuestion, testBrush.userSelection))

\* a multiple question whose key is written BA is graded correct in both
\* controllers
C16_Witness ==
    /\ ~ctl["normal_"].currentQuestion.isNull
    /\ ctl["normal_"].currentQuestion.type = "multiple"
    /\ ctl["normal_"].currentQuestion.correctAnswer = <<"B", "A">>
    /\ ctl["normal_"].isAnswerChecked
    /\ ctl["normal_"].isCorrect
    /\ ~testBrush.currentQuestion.isNull
    /\ testBrush.isAnswerChecked
    /\ testBrush.isCorrect

\* the normal-practice controller grades its question for the first time
FirstNormalGrading ==
    /\ GradeCall("normal_")
    /\ Loaded("normal_")
    /\ ~ctl["normal_"].isAnswerChecked
    /\ ctl'["normal_"].isAnswerChecked
    /\ ctl["normal_"].currentQuestionIndex \notin DOMAIN ctl["normal_"].answerHistory

\* the exam grades its question for the first time
FirstTestGrading ==
    /\ CheckAnswerImmediately
    /\ ~testBrush.currentQuestion.isNull
    /\ ~testBrush.isAnswerChecked
    /\ testBrush'.isAnswerChecked
    /\ testBrush.currentQuestionIndex \notin DOMAIN testBrush.answerHistory

\* mistake set after is mistake set before with question q upserted by its
\* stem line: its entry set to streak 0 when there is one, and otherwise one
\* entry of the original record with streak 0 added; the other entries as
\* they were
UpsertedByStem(before, after, q) ==
    LET stem == q.originalData[1]
        present == {i \in 1..Len(before) : before[i].question[1] = stem}
    IN  IF present = {}
        THEN /\ Len(after) = Len(before) + 1
             /\ SubSeq(after, 1, Len(before)) = before
             /\ after[Len(after)].question = q.originalData
             /\ after[Len(after)].consecutiveCorrect = 0
        ELSE /\ Len(after) = Len(before)
             /\ \A i \in 1..Len(before) :
                    IF i \in present
                    THEN /\ after[i].question = before[i].question
                         /\ after[i].consecutiveCorrect = 0
                    ELSE after[i] = before[i]

\* C17: a first wrong answer to a question in normal practice or in the exam
\* upserts the question into the stored mistake set by its stem line (entry
\* added with streak 0, or its streak set to 0, the other entries unchanged);
\* a first correct answer there leaves the stored mistake set unchanged.
C17_WrongAnswerUpserts ==
    [][/\ FirstNormalGrading =>
            IF ctl'["normal_"].isCorrect
            THEN StoredWrongSet' = StoredWrongSet
            ELSE UpsertedByStem(StoredWrongSet, StoredWrongSet',
                                ctl["normal_"].currentQuestion)
       /\ FirstTestGrading =>
            IF testBrush'.isCorrect
            THEN StoredWrongSet' = StoredWrongSet
            ELSE UpsertedByStem(StoredWrongSet, StoredWrongSet', testBrush.currentQuestion)
      ]_vars

\* question m1, stored with streak 2, was answered wrong in the exam and has
\* streak 0; the entry of s1 is as it was
C17_Witness ==
    /\ ~testBrush.currentQuestion.isNull
    /\ StemOf(testBrush.currentQuestion) = "m1"
    /\ testBrush.isAnswerChecked
    /\ ~testBrush.isCorrect
    /\ testBrush.stats.incorrect = 1
    /\ Len(StoredWrongSet) = 2
    /\ HasEntry("m1") /\ EntryOf("m1").consecutiveCorrect = 0
    /\ HasEntry("s1") /\ EntryOf("s1").consecutiveCorrect = 0

\* the entry addQuestionToWrongSet keeps for question q: the one under the
\* first line of its raw record
InsertedEntry(wrongSet, q) == StemIndex(wrongSet, q.originalData[1])

\* C18: the entry inserted for a question under its stem line is the entry
\* that the grading of the question in mistake review finds and updates: a
\* first review grading of a question whose inserted entry is in the stored
\* mistake set applies the streak rule to that entry.
C18_IdentityConsistent ==
    [][(FirstReviewGrading
        /\ InsertedEntry(StoredWrongSet, ctl["wrong_"].currentQuestion) > -1)
       => StoredWrongSet' =
            StreakOutcome(StoredWrongSet,
                          InsertedEntry(StoredWrongSet, ctl["wrong_"].currentQuestion),
                          ctl'["wrong_"].isCorrect)
      ]_vars

\* the user navigates in controller m, starts or continues a session of it,
\* or resets it
Navigates(m) ==
    \/ \E index \in 0..MaxIndex : LoadQuestion(m, index)
    \/ PrevQuestion(m)
    \/ NextQuestion(m)
    \/ \E type \in Types : StartPracticeByType(m, type)
    \/ \E type \in Types : ContinuePractice(m, type)
    \/ Reset(m)

\* C19: a controller has at most one auto-advance callback pending; a
\* navigation (prev, next, jump, start, continue) or a reset that acts on the
\* controller leaves none pending, so that a stale callback never fires; and
\* a callback that advances currentQuestionIndex finds the controller at the
\* graded question it was scheduled for.
C19_StaleCallbackCancelled ==
    [][\A m \in Modes :
        /\ pendingTimeouts'[m].orphans = 0
        /\ (Navigates(m) /\ ctl'[m] # ctl[m]) => ~pendingTimeouts'[m].cur
        /\ (AutoNextFires(m)
            /\ ctl'[m].currentQuestionIndex # ctl[m].currentQuestionIndex)
           => (Loaded(m) /\ ctl[m].isAnswerChecked /\ ctl[m].isCorrect)
      ]_vars

\* C20: at most one periodic tick of the exam timer is scheduled, and one is
\* scheduled only while an exam run is started and not finished: none is
\* left after finishTest or reset.
C20_TimerDiscipline ==
    /\ intervals <= 1
    /\ intervals = 1 => RunInProgress

\* the badge and the source of the mistake-review controller follow the
\* stored mistake set
DependentsFresh ==
    /\ wrongQuestionCount = Len(StoredWrongSet)
    /\ ctl["wrong_"].allQuestions = ParseAll(StoredWrongSet)
    /\ ctl["wrong_"].counts =
            [single |-> CountType(ParseAll(StoredWrongSet), "single"),
             multiple |-> CountType(ParseAll(StoredWrongSet), "multiple"),
             judge |-> CountType(ParseAll(StoredWrongSet), "judge"),
             total |-> Len(ParseAll(StoredWrongSet))]

\* every question of pool is the parse of an entry of the stored mistake set
DrawnFromSet(pool) ==
    \A i \in 1..Len(pool) :
        \E j \in 1..Len(StoredWrongSet) : pool[i] = parseQuestion(StoredWrongSet[j].question)

\* C21: after every operation the badge is the number of stored mistake-set
\* entries, and the question source and per-kind counts of the mistake-review
\* controller are the parse of the stored set; the pool of a mistake-review
\* session holds, when the session starts, only questions of the stored set.
C21_DependentsFollowSet ==
    /\ []DependentsFresh
    /\ [][(\E type \in Types : StartPracticeByType("wrong_", type))
            => DrawnFromSet(ctl["wrong_"].practicePool)']_vars

\* the exam stored a first mistake, and a mistake-review session was started
\* on it afterwards
C21_Witness ==
    /\ testBrush.isAnswerChecked
    /\ ~testBrush.isCorrect
    /\ Len(StoredWrongSet) = 1
    /\ wrongQuestionCount = 1
    /\ ctl["wrong_"].isPracticeStarted
    /\ Len(ctl["wrong_"].practicePool) = 1
    /\ ctl["wrong_"].counts.total = 1

\* controller m shows a multiple question, not checked, nothing selected
NothingTicked(m) ==
    /\ Loaded(m)
    /\ ctl[m].currentQuestion.type = "multiple"
    /\ ~ctl[m].isAnswerChecked
    /\ ctl[m].userSelection = <<>>

\* the exam shows a question, not checked, nothing selected
NothingChosen ==
    /\ ~testBrush.currentQuestion.isNull
    /\ ~testBrush.isAnswerChecked
    /\ testBrush.userSelection = <<>>

\* C22: checkAnswer on a multiple question with an empty selection, and
\* checkAnswerImmediately on any question with an empty selection, change
\* nothing (isAnswerChecked, stats, answerHistory, mistake set, checkpoint and
\* timer as before), and the question is graded once an option is selected.
C22_ValidationFailure ==
    /\ \A m \in Modes :
            NothingTicked(m) =>
                /\ checkAnswer(World, m, FALSE) = World
                /\ checkAnswer(World, m, TRUE) = World
                /\ checkAnswer(WithCtl(World, m, [ctl[m] EXCEPT !.userSelection = <<"A">>]),
                               m, FALSE).ctl[m].isAnswerChecked
    /\ NothingChosen =>
            /\ checkAnswerImmediately(World) = World
            /\ checkAnswerImmediately(selectOption(World, "A")).test.isAnswerChecked

\* the normal-practice controller shows the multiple question and the exam a
\* single question, both with nothing selected, after a question was graded
C22_Witness ==
    /\ NothingTicked("normal_")
    /\ ctl["normal_"].stats.correct + ctl["normal_"].stats.incorrect = 1
    /\ NothingChosen
    /\ testBrush.currentQuestion.type = "single"

(***************************************************************************)
(* Page loads that find a damaged mistake set stored.                      *)
(***************************************************************************)
BadWrongSets == {BadText(<<Entry(RawS1, 0)>>), NotAList}

InitBadSet ==
    \E stored \in BadWrongSets :
        LET W == AppInit([k \in Keys |-> IF k = WRONG_SET_KEY THEN stored ELSE NoItem])
        IN  /\ ctl = W.ctl
            /\ localStorage = W.ls
            /\ wrongQuestionCount = W.badge
            /\ pendingTimeouts = W.timers
            /\ testBrush = W.test
            /\ intervals = W.intervals
            /\ thrown = W.thrown
            /\ reviewed = [s \in Stems |-> -1]
            /\ runStart = StreaksIn(W.ls)
            /\ steps = 0
            /\ windowAnswer = Bank

NextBadSet ==
    \/ NextGrading
    \/ \E m \in Modes : Reset(m)
    \/ Reload

SpecBadSet == InitBadSet /\ [][NextBadSet]_vars

WrongSetDamaged == localStorage[WRONG_SET_KEY].tag \in {"text", "object"}

\* C23: a read of a stored mistake set that is not JSON, or not a list,
\* gives the empty collection and raises nothing: the page load, the starts,
\* the count refreshes and the gradings that read it complete, with an empty
\* badge and an empty review source as long as the damaged value is stored.
C23_DamagedSetReadsEmpty ==
    /\ ~thrown
    /\ WrongSetDamaged =>
            /\ getWrongSet(localStorage) = <<>>
            /\ wrongQuestionCount = 0
            /\ ctl["wrong_"].allQuestions = <<>>
            /\ ctl["wrong_"].counts.total = 0
            /\ ctl["wrong_"].isEmpty

\* after a page load that found a damaged mistake set, a wrong answer in
\* normal practice stored a mistake set of one entry
C23_Witness ==
    /\ Loaded("normal_")
    /\ ctl["normal_"].isAnswerChecked
    /\ ~ctl["normal_"].isCorrect
    /\ ~WrongSetDamaged
    /\ Len(StoredWrongSet) = 1
    /\ wrongQuestionCount = 1
    /\ ~thrown

(***************************************************************************)
(* Page loads that find a damaged test history or a damaged checkpoint.    *)
(***************************************************************************)
BadStores ==
    {ls \in [Keys -> {NoItem, BadText(<<>>)}] :
        /\ \A k \in Keys : ls[k] # NoItem => k \in {TEST_HISTORY_KEY, ProgressKey("normal_", "single")}
        /\ \E k \in Keys : ls[k] # NoItem}

InitBadStore ==
    \E ls \in BadStores :
        LET W == AppInit(ls)
        IN  /\ ctl = W.ctl
            /\ localStorage = W.ls
            /\ wrongQuestionCount = W.badge
            /\ pendingTimeouts = W.timers
            /\ testBrush = W.test
            /\ intervals = W.intervals
            /\ thrown = W.thrown
            /\ reviewed = [s \in Stems |-> -1]
            /\ runStart = StreaksIn(W.ls)
            /\ steps = 0
            /\ windowAnswer = Bank

NextBadStore ==
    \/ Reload
    \/ TestReset
    \/ StartTest
    \/ \E selection \in Letters : SelectOption(selection)
    \/ CheckAnswerImmediately
    \/ MoveToNextQuestion
    \/ \E type \in Types : ContinuePractice("normal_", type)
    \/ \E type \in Types : StartPracticeByType("normal_", type)
    \/ \E selection \in Letters : SelectAndCheck("normal_", <<selection>>)

SpecBadStore == InitBadStore /\ [][NextBadStore]_vars

RecordLines ==
    {TextLine("q", "none"), TextLine("q", "multiple"), TextLine("q", "judge"),
     OptLine("A"), AnsLine(<<>>), AnsLine(<<"A">>), AnsLine(<<"A", "B">>),
     AnsLine(<<"dui">>), BlankLine}

Records == UNION {[1..n -> RecordLines] : n \in 0..MaxLines}

InitParse ==
    \E r \in Records :
        LET parsed == ParseBank(<<r>> \o BankOf(1, 1, 1))
            W == testInit(init(AppInit([k \in Keys |-> NoItem]), "normal_", parsed), parsed)
        IN  /\ ctl = W.ctl
            /\ localStorage = W.ls
            /\ wrongQuestionCount = W.badge
            /\ pendingTimeouts = W.timers
            /\ testBrush = W.test
            /\ intervals = W.intervals
            /\ thrown = W.thrown
            /\ reviewed = [x \in Stems |-> -1]
            /\ runStart = StreaksIn(W.ls)
            /\ steps = 0
            /\ windowAnswer = <<r>> \o BankOf(1, 1, 1)

NextParse ==
    \/ \E type \in Categories : StartPracticeByTypeWithin("normal_", type, MaxParseSteps)
    \/ StartTestWithin(MaxParseSteps)

SpecParse == InitParse /\ [][NextParse]_vars

NonBlank(record) == SelectSeq(record, LAMBDA line : line.k # "blank")

\* the position, among the non-blank lines, of the answer line (the first
\* line that starts as one), 0 without one
AnswerAt(record) ==
    IF \E i \in 1..Len(NonBlank(record)) : NonBlank(record)[i].k = "ans"
    THEN CHOOSE i \in 1..Len(NonBlank(record)) :
            /\ NonBlank(record)[i].k = "ans"
            /\ \A j \in 1..(i - 1) : NonBlank(record)[j].k # "ans"
    ELSE 0

\* the cases in which a record is to be rejected
Malformed(record) ==
    \/ Len(NonBlank(record)) < 2
    \/ AnswerAt(record) = 0
    \/ NonBlank(record)[AnswerAt(record)].a = <<>>
    \/ /\ NonBlank(record)[1].m # "judge"
       /\ ~\E i \in 1..(AnswerAt(record) - 1) : NonBlank(record)[i].k = "opt"

ParsedFrom(questions, record) ==
    \E j \in 1..Len(questions) : questions[j].originalData = record

\* C25: a record of the bank is left out of the parsed questions exactly when
\* it has fewer than two non-blank lines, or no answer line, or an empty
\* answer, or (not being a judge record) no option line before its answer
\* line; every parsed question has at least one option, and the parsed
\* questions are the other records, once each.
C25_MalformedDropped ==
    /\ \A i \in 1..Len(windowAnswer) :
           Malformed(windowAnswer[i]) <=> ~ParsedFrom(ctl["normal_"].allQuestions, windowAnswer[i])
    /\ \A j \in 1..Len(ctl["normal_"].allQuestions) :
           ctl["normal_"].allQuestions[j].options # <<>>
    /\ Len(ctl["normal_"].allQuestions)
         = Cardinality({i \in 1..Len(windowAnswer) : ~Malformed(windowAnswer[i])})
    /\ testBrush.allQuestions = ctl["normal_"].allQuestions

\* C25 witness: a record whose only option line comes after its answer line
\* was dropped, and practice started on the three other records.
C25_Witness ==
    /\ windowAnswer[1] = <<TextLine("q", "none"), AnsLine(<<"A">>), OptLine("A")>>
    /\ Len(ctl["normal_"].allQuestions) = 3
    /\ Len(ctl["normal_"].practicePool) = 3

\* C26: every parsed question of kind judge has the two options A and B and
\* an answer key that is the letter A or the letter B.
C26_JudgeCanonical ==
    \A j \in 1..Len(ctl["normal_"].allQuestions) :
        ctl["normal_"].allQuestions[j].type = "judge" =>
            /\ ctl["normal_"].allQuestions[j].options = <<OptLine("A"), OptLine("B")>>
            /\ ctl["normal_"].allQuestions[j].correctAnswer \in {<<"A">>, <<"B">>}

Count(seq, x) == Cardinality({i \in 1..Len(seq) : seq[i] = x})

IsPermutationOf(pool, source) ==
    /\ Len(pool) = Len(source)
    /\ \A i \in 1..Len(source) : Count(pool, source[i]) = Count(source, source[i])

KindRank(type) == CASE type = "single" -> 1 [] type = "multiple" -> 2 [] OTHER -> 3

InBlocks(pool) ==
    \A i, j \in 1..Len(pool) : i < j => KindRank(pool[i].type) <= KindRank(pool[j].type)

\* C27: a start by category 'all' leaves a pool that is a permutation of the
\* controller's questions with the single questions first, then the multiple
\* ones, then the judge ones; a start by a kind leaves a permutation of the
\* questions of that kind; stats.total is the length of the pool.
C27_PoolIsPermutation ==
    [][\A type \in Categories :
         StartPracticeByTypeWithin("normal_", type, MaxParseSteps) =>
            /\ IF type = "all"
               THEN /\ IsPermutationOf(ctl'["normal_"].practicePool, ctl["normal_"].allQuestions)
                    /\ InBlocks(ctl'["normal_"].practicePool)
               ELSE IsPermutationOf(ctl'["normal_"].practicePool,
                                    OfType(ctl["normal_"].allQuestions, type))
            /\ ctl'["normal_"].stats.total = Len(ctl'["normal_"].practicePool)
      ]_vars

\* C27 witness: a bank with two multiple questions, the drawn one first, was
\* started by 'all': the pool holds the four questions, the single one first
\* and the two multiple ones in the other order.
C27_Witness ==
    /\ Len(ctl["normal_"].allQuestions) = 4
    /\ ctl["normal_"].allQuestions[1].type = "multiple"
    /\ ctl["normal_"].practiceType = "all"
    /\ Len(ctl["normal_"].practicePool) = 4
    /\ ctl["normal_"].practicePool[1].type = "single"
    /\ ctl["normal_"].practicePool[3] = ctl["normal_"].allQuestions[1]
    /\ ctl["normal_"].stats.total = 4

(***************************************************************************)
(* Auto-advance                                                            *)
(***************************************************************************)
\* the number of auto-advance callbacks of controller m in the timer queue
PendingIn(W, m) == (IF W.timers[m].cur THEN 1 ELSE 0) + W.timers[m].orphans

\* what a grading call does to the current state: selectAndCheck(selection),
\* or the selection bound to the inputs and then checkAnswer()
GradingCall(m, selection, isAutoCheck) ==
    IF isAutoCheck
    THEN selectAndCheck(World, m, selection)
    ELSE checkAnswer(WithCtl(World, m, [ctl[m] EXCEPT !.userSelection = selection]), m, FALSE)

\* in the current state a grading call of either form, with any selection,
\* that grades the question puts one callback in the queue when it came from
\* selectAndCheck, the question is not a multiple one and the answer is
\* correct; otherwise it leaves the queue as it was, with nothing pending
SchedulesAsStated(m) ==
    \A selection \in ClickOrders, isAutoCheck \in BOOLEAN :
        (~ctl[m].isAnswerChecked /\ GradingCall(m, selection, isAutoCheck).ctl[m].isAnswerChecked) =>
            IF /\ isAutoCheck
               /\ ctl[m].currentQuestion.type # "multiple"
               /\ GradingCall(m, selection, isAutoCheck).ctl[m].isCorrect
            THEN /\ PendingIn(GradingCall(m, selection, isAutoCheck), m) = 1
                 /\ GradingCall(m, selection, isAutoCheck).timers[m].cur
                 /\ GradingCall(m, selection, isAutoCheck).ctl[m].autoNextTimeout
            ELSE /\ GradingCall(m, selection, isAutoCheck).timers = pendingTimeouts
                 /\ PendingIn(GradingCall(m, selection, isAutoCheck), m) = 0

PositionChanges(m) ==
    \/ ctl'[m].currentQuestionIndex # ctl[m].currentQuestionIndex
    \/ ctl'[m].currentQuestion # ctl[m].currentQuestion

\* C28: a grading step of a practice controller schedules an auto-advance
\* exactly when it came from selectAndCheck, the question is not a multiple
\* one and the answer is correct; a wrong answer, a multiple question or an
\* explicit checkAnswer() schedules none and leaves none pending, and while
\* none is pending the position changes only by a navigation, a start, a
\* continue, a reset or a reload of the page.
C28_AutoAdvanceScheduling ==
    /\ [](\A m \in Modes : SchedulesAsStated(m))
    /\ [][\A m \in Modes :
            (PositionChanges(m) /\ PendingIn(World, m) = 0) => (Navigates(m) \/ Reload)]_vars

\* C28 witness: the first question was answered correctly and left; the
\* multiple question at position 1 was then graded correct by checkAnswer()
\* and nothing is pending.
C28_Witness ==
    /\ ctl["normal_"].currentQuestionIndex = 1
    /\ ~ctl["normal_"].currentQuestion.isNull
    /\ ctl["normal_"].currentQuestion.type = "multiple"
    /\ ctl["normal_"].isAnswerChecked
    /\ ctl["normal_"].isCorrect
    /\ 0 \in DOMAIN ctl["normal_"].answerHistory
    /\ ctl["normal_"].answerHistory[0].isCorrect
    /\ PendingIn(World, "normal_") = 0

\* checkAnswerImmediately in the current state with selection ticked
TestGradingCall(selection) ==
    checkAnswerImmediately([World EXCEPT !.test.userSelection = selection])

\* in the current state checkAnswerImmediately, with any selection, when it
\* grades the question, puts one callback in the queue if the answer is
\* correct and leaves the queue as it was if not
TestSchedulesAsStated ==
    \A selection \in ClickOrders :
        (~testBrush.isAnswerChecked /\ TestGradingCall(selection).test.isAnswerChecked) =>
            IF TestGradingCall(selection).test.isCorrect
            THEN /\ PendingIn(TestGradingCall(selection), "test") = PendingIn(World, "test") + 1
                 /\ TestGradingCall(selection).timers["test"].cur
                 /\ TestGradingCall(selection).test.autoNextTimeout
            ELSE TestGradingCall(selection).timers = pendingTimeouts

\* C29: in the exam checkAnswerImmediately schedules an auto-advance exactly
\* when it graded the answer correct, whatever the kind of the question; the
\* callback, fired during a run, finds the graded question, and it shows the
\* question at the next position, or, at the last position, ends the run
\* with a result added to the history.
C29_ExamAutoAdvance ==
    /\ []TestSchedulesAsStated
    /\ [][(TestAutoNextFiresWithin(MaxTestSteps) /\ testBrush' # testBrush) =>
            /\ RunInProgress => (testBrush.isAnswerChecked /\ testBrush.isCorrect)
            /\ IF isLastQuestion(testBrush)
               THEN /\ testBrush'.currentQuestion.isNull
                    /\ ~testBrush'.lastTestResult.isNull
                    /\ Len(testBrush'.history) = Len(testBrush.history) + 1
                    /\ testBrush'.history[1] = testBrush'.lastTestResult
               ELSE /\ testBrush'.currentQuestionIndex = testBrush.currentQuestionIndex + 1
                    /\ testBrush'.currentQuestion
                         = testBrush.practicePool[testBrush.currentQuestionIndex + 2]
      ]_vars

\* C29 witness: the multiple question at the last position was graded
\* correct, and the run ended with one result and no callback left.
C29_Witness ==
    /\ testBrush.isPracticeStarted
    /\ testBrush.currentQuestion.isNull
    /\ testBrush.currentQuestionIndex = Len(testBrush.practicePool) - 1
    /\ testBrush.practicePool[Len(testBrush.practicePool)].type = "multiple"
    /\ testBrush.currentQuestionIndex \in DOMAIN testBrush.answerHistory
    /\ testBrush.answerHistory[testBrush.currentQuestionIndex].isCorrect
    /\ Len(testBrush.history) = 1
    /\ PendingIn(World, "test") = 0

\* the question shown by a controller is the one at its position in its pool
ShownIsAtPosition(c) ==
    ~c.currentQuestion.isNull =>
        /\ 0 <= c.currentQuestionIndex
        /\ c.currentQuestionIndex < Len(c.practicePool)
        /\ c.currentQuestion = c.practicePool[c.currentQuestionIndex + 1]

\* C30: whenever a practice controller or the exam controller has a current
\* question, its position is within its pool and the current question is the
\* question of the pool at that position.
C30_CurrentQuestionInPool ==
    /\ \A m \in Modes : ShownIsAtPosition(ctl[m])
    /\ ShownIsAtPosition(testBrush)

(***************************************************************************)
(* The three controllers together, under every operation of each.          *)
(***************************************************************************)
NextFrame ==
    \/ \E m \in Modes, type \in Types : StartPracticeByTypeWithin(m, type, MaxFrameSteps)
    \/ \E m \in Modes, type \in Types : ContinuePracticeWithin(m, type, MaxFrameSteps)
    \/ \E m \in Modes, index \in 0..MaxIndex : LoadQuestionWithin(m, index, MaxFrameSteps)
    \/ \E m \in Modes : PrevQuestionWithin(m, MaxFrameSteps)
    \/ \E m \in Modes : NextQuestionWithin(m, MaxFrameSteps)
    \/ \E m \in Modes, selection \in Letters :
            SelectAndCheckWithin(m, <<selection>>, MaxFrameSteps)
    \/ \E m \in Modes, selection \in MultiSelections :
            SetSelectionWithin(m, selection, MaxFrameSteps)
    \/ \E m \in Modes : CheckAnswerWithin(m, MaxFrameSteps)
    \/ \E m \in Modes : AutoNextFiresWithin(m, MaxFrameSteps)
    \/ \E m \in Modes : ResetWithin(m, MaxFrameSteps)
    \/ ReloadWithin(MaxFrameSteps)
    \/ StartTestWithin(MaxFrameSteps)
    \/ \E index \in 0..MaxIndex : TestLoadQuestionWithin(index, MaxFrameSteps)
    \/ TestPrevQuestionWithin(MaxFrameSteps)
    \/ MoveToNextQuestionWithin(MaxFrameSteps)
    \/ \E selection \in Letters : SelectOptionWithin(selection, MaxFrameSteps)
    \/ CheckAnswerImmediatelyWithin(MaxFrameSteps)
    \/ TestResetWithin(MaxFrameSteps)
    \/ TestAutoNextFiresWithin(MaxFrameSteps)
    \/ TimerFiresWithin(MaxFrameSteps)

SpecFrame == Init /\ [][NextFrame]_vars

\* C31: the pool of a controller changes only in a step that starts or
\* continues a session of that controller (or starts an exam), or that loads
\* the page again: navigation, grading, callbacks, resets and the updates of
\* the mistake set, with the replacement of the review controller's question
\* source and the evictions they bring, leave it as it is.
C31_PoolFixedOnceStarted ==
    [][/\ \A m \in Modes :
            ctl'[m].practicePool # ctl[m].practicePool =>
                \/ \E type \in Types : StartPracticeByTypeWithin(m, type, MaxFrameSteps)
                \/ \E type \in Types : ContinuePracticeWithin(m, type, MaxFrameSteps)
                \/ ReloadWithin(MaxFrameSteps)
       /\ testBrush'.practicePool # testBrush.practicePool =>
                (StartTestWithin(MaxFrameSteps) \/ ReloadWithin(MaxFrameSteps))
      ]_vars

\* C31 witness: a review session runs on a pool of two questions, one of
\* which was evicted from the stored set and from the controller's source.
C31_Witness ==
    /\ ctl["wrong_"].isPracticeStarted
    /\ Len(ctl["wrong_"].practicePool) = 2
    /\ Len(ctl["wrong_"].allQuestions) = 1
    /\ Len(StoredWrongSet) = 1
    /\ ~ctl["wrong_"].currentQuestion.isNull
    /\ ctl["wrong_"].isAnswerChecked
    /\ ctl["wrong_"].isCorrect
    /\ \A j \in 1..Len(ctl["wrong_"].allQuestions) :
           ctl["wrong_"].allQuestions[j] # ctl["wrong_"].currentQuestion

\* controller c is at the beginning of a run: question 0 of its pool is
\* shown unanswered, nothing is counted or recorded
FreshRun(c) ==
    /\ c.isPracticeStarted
    /\ Len(c.practicePool) > 0
    /\ c.currentQuestionIndex = 0
    /\ c.currentQuestion = c.practicePool[1]
    /\ c.stats.correct = 0
    /\ c.stats.incorrect = 0
    /\ c.stats.total = Len(c.practicePool)
    /\ c.answerHistory = EmptyHistory
    /\ ~c.isAnswerChecked
    /\ ~c.isCorrect
    /\ c.userSelection = <<>>

\* C32: a start that finds a non-empty pool leaves the controller at the
\* beginning of a run whatever its state before; in a practice controller
\* the checkpoint of the category started is then the checkpoint of the new
\* run, and in the exam the elapsed time is 0.
C32_StartIsFresh ==
    [][/\ \A m \in Modes, type \in Types :
            (/\ StartPracticeByTypeWithin(m, type, MaxFrameSteps)
             /\ Len(ctl'[m].practicePool) > 0) =>
                /\ FreshRun(ctl'[m])
                /\ ctl'[m].practiceType = type
                /\ localStorage'[ProgressKey(m, type)] = JSONStringify(Snapshot(ctl'[m]))
       /\ (StartTestWithin(MaxFrameSteps) /\ Len(testBrush'.practicePool) > 0) =>
                /\ FreshRun(testBrush')
                /\ testBrush'.elapsedTime = 0
                /\ \A k \in Keys \ {WRONG_SET_KEY, TEST_HISTORY_KEY} :
                       localStorage'[k] = localStorage[k]
      ]_vars

\* C32 witness: normal practice was started again after a wrong answer of
\* its first run (the mistake it stored is the only trace left).
C32_Witness ==
    /\ FreshRun(ctl["normal_"])
    /\ ctl["normal_"].practiceType = "all"
    /\ localStorage[ProgressKey("normal_", "all")].tag = "json"
    /\ Len(StoredWrongSet) = 1
    /\ ~testBrush.isPracticeStarted
    /\ ctl["wrong_"].practicePool = <<>>

\* the step is an operation of practice controller m on its session
SessionStep(m) ==
    \/ \E index \in 0..MaxIndex : LoadQuestionWithin(m, index, MaxFrameSteps)
    \/ PrevQuestionWithin(m, MaxFrameSteps)
    \/ NextQuestionWithin(m, MaxFrameSteps)
    \/ \E selection \in Letters : SelectAndCheckWithin(m, <<selection>>, MaxFrameSteps)
    \/ \E selection \in MultiSelections : SetSelectionWithin(m, selection, MaxFrameSteps)
    \/ CheckAnswerWithin(m, MaxFrameSteps)
    \/ AutoNextFiresWithin(m, MaxFrameSteps)

\* C33: the checkpoint of mode m and category c is created, changed or
\* deleted only by controller m, in a start or a continue of category c or in
\* an operation on its session while that session is of category c: never by
\* the controller of the other mode, by an operation on a session of another
\* category, or by the exam.
C33_CheckpointIsolation ==
    [][\A m \in Modes, c \in Categories :
        localStorage'[ProgressKey(m, c)] # localStorage[ProgressKey(m, c)] =>
            \/ StartPracticeByTypeWithin(m, c, MaxFrameSteps)
            \/ ContinuePracticeWithin(m, c, MaxFrameSteps)
            \/ (ctl[m].practiceType = c /\ SessionStep(m))
      ]_vars

\* C33 witness: normal practice holds a checkpoint of category single and
\* one of category all, different from each other, mistake review holds its
\* own of category all, and an exam is running.
C33_Witness ==
    /\ localStorage[ProgressKey("normal_", "single")].tag = "json"
    /\ localStorage[ProgressKey("normal_", "all")].tag = "json"
    /\ localStorage[ProgressKey("normal_", "all")] # localStorage[ProgressKey("normal_", "single")]
    /\ localStorage[ProgressKey("wrong_", "all")].tag = "json"
    /\ testBrush.isPracticeStarted
    /\ ~testBrush.currentQuestion.isNull

(***************************************************************************)
(* Pages loaded with a short bank of single questions, some of them        *)
(* possibly alike; normal practice is started and continued on it.         *)
(***************************************************************************)
ShuffledBanks ==
    UNION {[1..n -> {RawOfKind("single", k) : k \in 1..MaxShuffle}] : n \in 0..MaxShuffle}

InitShuffle ==
    \E bank \in ShuffledBanks :
        LET parsed == ParseBank(bank)
            W == testInit(init(AppInit([k \in Keys |-> NoItem]), "normal_", parsed), parsed)
        IN  /\ ctl = W.ctl
            /\ localStorage = W.ls
            /\ wrongQuestionCount = W.badge
            /\ pendingTimeouts = W.timers
            /\ testBrush = W.test
            /\ intervals = W.intervals
            /\ thrown = W.thrown
            /\ reviewed = [x \in Stems |-> -1]
            /\ runStart = StreaksIn(W.ls)
            /\ steps = 0
            /\ windowAnswer = bank

NextShuffle ==
    \/ \E type \in Types : StartPracticeByTypeWithin("normal_", type, MaxShuffleSteps)
    \/ \E type \in Types : ContinuePracticeWithin("normal_", type, MaxShuffleSteps)
    \/ NextQuestionWithin("normal_", MaxShuffleSteps)

SpecShuffle == InitShuffle /\ [][NextShuffle]_vars

Distinct(array) == \A i, j \in 1..Len(array) : array[i] = array[j] => i = j

\* every arrangement of the elements of array
Rearrangements(array) ==
    {[i \in 1..Len(array) |-> array[p[i]]] :
        p \in {q \in [1..Len(array) -> 1..Len(array)] : Distinct(q)}}

RECURSIVE Factorial(_)
Factorial(n) == IF n <= 1 THEN 1 ELSE n * Factorial(n - 1)

\* shuffleArray on array: whatever the draws the result is a permutation of
\* array; when the elements are distinct the results over all the draws are
\* all the arrangements, and the draws are as many as the arrangements
ShufflesToAll(array) ==
    /\ \A r \in RandomDraws(Len(array)) : IsPermutationOf(shuffleArray(array, r), array)
    /\ Distinct(array) =>
          /\ {shuffleArray(array, r) : r \in RandomDraws(Len(array))} = Rearrangements(array)
          /\ Cardinality(RandomDraws(Len(array))) = Factorial(Len(array))
          /\ Cardinality(Rearrangements(array)) = Factorial(Len(array))

\* C34: shuffleArray returns a permutation of its input; over an input of n
\* distinct elements its results are the n! permutations, one for each
\* sequence of draws j in 0..i, i from n-1 down to 1; and continuePractice
\* takes the pool as it is stored, in the stored order.
C34_ShuffleIsUniformWalk ==
    /\ [](ShufflesToAll(ctl["normal_"].allQuestions)
           /\ ShufflesToAll(ctl["normal_"].practicePool))
    /\ [][\A type \in Types :
            (/\ ContinuePracticeWithin("normal_", type, MaxShuffleSteps)
             /\ localStorage[ProgressKey("normal_", type)].tag = "json") =>
                ctl'["normal_"].practicePool
                    = JSONParse(localStorage[ProgressKey("normal_", type)]).practicePool
      ]_vars

\* C34 witness: a session of category single runs on three distinct
\* questions in the reverse of their order in the bank, after two other
\* operations, while the checkpoint of category all holds them in the order
\* of the bank.
C34_Witness ==
    /\ Len(ctl["normal_"].allQuestions) = 3
    /\ Distinct(ctl["normal_"].allQuestions)
    /\ ctl["normal_"].practiceType = "single"
    /\ ctl["normal_"].practicePool
         = <<ctl["normal_"].allQuestions[3], ctl["normal_"].allQuestions[2],
             ctl["normal_"].allQuestions[1]>>
    /\ localStorage[ProgressKey("normal_", "all")].tag = "json"
    /\ JSONParse(localStorage[ProgressKey("normal_", "all")]).practicePool
         = ctl["normal_"].allQuestions
    /\ steps = 3

(***************************************************************************)
(* Page loads that find a mistake set with any streaks below 3, some of    *)
(* its items possibly in the legacy form; the three controllers grade.     *)
(***************************************************************************)
StoredItems(question) ==
    {LegacyItem(question)} \cup {Entry(question, n) : n \in 0..2}

StreakStores ==
    {NoItem}
    \cup {JSONStringify(<<a>>) : a \in StoredItems(RawM1)}
    \cup {JSONStringify(<<a, b>>) : a \in StoredItems(RawM1),
                                    b \in {LegacyItem(RawS1), Entry(RawS1, 2)}}

\* the checkpoint of a review session of category all left by an earlier
\* visit: both questions in the pool, the second shown, none answered
LeftCheckpoint ==
    JSONStringify(Snapshot([NewBrushLogic EXCEPT
        !.practicePool = ParseAll(<<Entry(RawS1, 0), Entry(RawM1, 0)>>),
        !.currentQuestionIndex = 1,
        !.stats.total = 2]))

\* what a page load finds: a mistake set and no checkpoint, or the
\* checkpoint of a review session whose entries have all been evicted since
StreakLoads ==
    {[k \in Keys |-> IF k = WRONG_SET_KEY THEN stored ELSE NoItem] : stored \in StreakStores}
    \cup {[k \in Keys |-> IF k = ProgressKey("wrong_", "all") THEN LeftCheckpoint ELSE NoItem]}

InitStreak ==
    \E ls \in StreakLoads :
        LET W == AppInit(ls)
        IN  /\ ctl = W.ctl
            /\ localStorage = W.ls
            /\ wrongQuestionCount = W.badge
            /\ pendingTimeouts = W.timers
            /\ testBrush = W.test
            /\ intervals = W.intervals
            /\ thrown = W.thrown
            /\ reviewed = [s \in Stems |-> -1]
            /\ runStart = StreaksIn(W.ls)
            /\ steps = 0
            /\ windowAnswer = Bank

NextStreak ==
    \/ NextGrading
    \/ \E type \in Types : ContinuePractice("wrong_", type)

SpecStreak == InitStreak /\ [][NextStreak]_vars

\* C35: every entry of the stored mistake set, as getWrongSet reads it (a
\* legacy item as streak 0), has consecutiveCorrect 0, 1 or 2.
C35_StreakBelowThree ==
    \A i \in 1..Len(StoredWrongSet) : StoredWrongSet[i].consecutiveCorrect \in 0..2

\* C35 witness: the review controller shows m1 answered correctly and its
\* entry is gone, while the item of s1, stored in the legacy form or with
\* streak 2 when the page was loaded, is stored as an entry.
C35_Witness ==
    /\ Loaded("wrong_")
    /\ StemOf(ctl["wrong_"].currentQuestion) = "m1"
    /\ ctl["wrong_"].isAnswerChecked
    /\ ctl["wrong_"].isCorrect
    /\ Len(ctl["wrong_"].practicePool) = 2
    /\ localStorage[WRONG_SET_KEY].tag = "json"
    /\ JSONParse(localStorage[WRONG_SET_KEY]) = <<Entry(RawS1, 0)>>

\* the first lines of the records of the stored mistake set
StoredStems == {StoredWrongSet[i].question[1] : i \in 1..Len(StoredWrongSet)}

StreakOf(wrongSet, stem) ==
    wrongSet[CHOOSE i \in 1..Len(wrongSet) : wrongSet[i].question[1] = stem].consecutiveCorrect

\* the step grades a question in normal practice or in the exam, wrong
WrongOutsideReview ==
    \/ /\ \/ \E selection \in Letters : SelectAndCheck("normal_", <<selection>>)
          \/ CheckAnswer("normal_")
       /\ ~ctl["normal_"].isAnswerChecked
       /\ ctl'["normal_"].isAnswerChecked
       /\ ~ctl'["normal_"].isCorrect
    \/ /\ CheckAnswerImmediately
       /\ ~testBrush.isAnswerChecked
       /\ testBrush'.isAnswerChecked
       /\ ~testBrush'.isCorrect

\* the step grades a question in mistake review, correct
CorrectInReview ==
    /\ \/ \E selection \in Letters : SelectAndCheck("wrong_", <<selection>>)
       \/ CheckAnswer("wrong_")
    /\ ~ctl["wrong_"].isAnswerChecked
    /\ ctl'["wrong_"].isAnswerChecked
    /\ ctl'["wrong_"].isCorrect

\* C36: the stored mistake set gains an entry only in a step that grades an
\* answer wrong in normal practice or in the exam, and it loses an entry, or
\* has a streak raised, only in a step that grades an answer correct in
\* mistake review: no operation of mistake review adds an entry, and no
\* operation of normal practice or of the exam removes one or raises a streak.
C36_EntriesInAndOut ==
    [][/\ (StoredStems' \ StoredStems # {} \/ Len(StoredWrongSet') > Len(StoredWrongSet))
            => WrongOutsideReview
       /\ (StoredStems \ StoredStems' # {} \/ Len(StoredWrongSet') < Len(StoredWrongSet))
            => CorrectInReview
       /\ (\E stem \in StoredStems \cap StoredStems' :
                StreakOf(StoredWrongSet', stem) > StreakOf(StoredWrongSet, stem))
            => CorrectInReview
      ]_vars

\* C36 witness: a review session was continued from a checkpoint whose
\* questions have no entry any more, its question m1 was answered wrong, and
\* the mistake set is still empty.
C36_Witness ==
    /\ Loaded("wrong_")
    /\ StemOf(ctl["wrong_"].currentQuestion) = "m1"
    /\ ctl["wrong_"].isAnswerChecked
    /\ ~ctl["wrong_"].isCorrect
    /\ ctl["wrong_"].stats.incorrect = 1
    /\ StoredWrongSet = <<>>
    /\ wrongQuestionCount = 0

(***************************************************************************)
(* One review run and the streaks it can raise.                            *)
(***************************************************************************)

MaxRunSteps == 7

\* every operation of the review controller, with starts and one-letter
\* answers of normal practice, which store entries and reset streaks
NextRun ==
    \/ \E type \in Types : StartPracticeByTypeWithin("wrong_", type, MaxRunSteps)
    \/ \E type \in Types : ContinuePracticeWithin("wrong_", type, MaxRunSteps)
    \/ \E index \in 0..MaxIndex : LoadQuestionWithin("wrong_", index, MaxRunSteps)
    \/ PrevQuestionWithin("wrong_", MaxRunSteps)
    \/ NextQuestionWithin("wrong_", MaxRunSteps)
    \/ \E selection \in Letters : SelectAndCheckWithin("wrong_", <<selection>>, MaxRunSteps)
    \/ \E selection \in MultiSelections : SetSelectionWithin("wrong_", selection, MaxRunSteps)
    \/ CheckAnswerWithin("wrong_", MaxRunSteps)
    \/ AutoNextFiresWithin("wrong_", MaxRunSteps)
    \/ ResetWithin("wrong_", MaxRunSteps)
    \/ StartPracticeByTypeWithin("normal_", "all", MaxRunSteps)
    \/ \E selection \in Letters : SelectAndCheckWithin("normal_", <<selection>>, MaxRunSteps)
    \/ ReloadWithin(MaxRunSteps)

SpecRun == InitStreak /\ [][NextRun]_vars

\* the streak the run began with: an entry stored since counts from 0
RunBase(stem) ==
    IF \E p \in runStart : p[1] = stem
    THEN (CHOOSE p \in runStart : p[1] = stem)[2]
    ELSE 0

\* the pool of the mistake review holds no two questions with one stem
DistinctStems(c) ==
    \A i, j \in 1..Len(c.practicePool) :
        StemOf(c.practicePool[i]) = StemOf(c.practicePool[j]) => i = j

CheckedIffRecorded(c) ==
    ~c.currentQuestion.isNull =>
        /\ c.isAnswerChecked <=> c.currentQuestionIndex \in DOMAIN c.answerHistory
        /\ c.isAnswerChecked =>
            /\ c.isCorrect = c.answerHistory[c.currentQuestionIndex].isCorrect
            /\ c.userSelection = c.answerHistory[c.currentQuestionIndex].userSelection

AtRecordedPosition(c) ==
    /\ ~c.currentQuestion.isNull
    /\ c.currentQuestionIndex \in DOMAIN c.answerHistory

\* C38: in every state, each practice controller and the exam controller with
\* a question loaded has isAnswerChecked true exactly when answerHistory has a
\* record at currentQuestionIndex, with isCorrect and userSelection equal to
\* that record; and at a recorded position checkAnswer, selectAndCheck and
\* checkAnswerImmediately return at their guard, changing nothing.
C38_CheckedIffRecorded ==
    /\ \A m \in Modes :
        /\ CheckedIffRecorded(ctl[m])
        /\ AtRecordedPosition(ctl[m]) =>
            /\ checkAnswer(World, m, FALSE) = World
            /\ \A selection \in Letters : selectAndCheck(World, m, <<selection>>) = World
    /\ CheckedIffRecorded(testBrush)
    /\ AtRecordedPosition(testBrush) => checkAnswerImmediately(World) = World

\* C38 witness: the review controller stands on the one position it has
\* graded, wrong, and shows the record, while the exam stands on an ungraded
\* question with a letter chosen.
C38_Witness ==
    /\ AtRecordedPosition(ctl["wrong_"])
    /\ ~ctl["wrong_"].isCorrect
    /\ ctl["wrong_"].isAnswerChecked
    /\ Cardinality(DOMAIN ctl["wrong_"].answerHistory) = 1
    /\ ~testBrush.currentQuestion.isNull
    /\ ~testBrush.isAnswerChecked
    /\ Len(testBrush.userSelection) > 0

(***************************************************************************)
(* A session answered correctly and left to its callbacks: pages loaded    *)
(* with a bank of single and judge questions, a mistake set of them or     *)
(* none; each practice controller is started once from its menu, every     *)
(* question is answered with its key through selectAndCheck, and the       *)
(* browser runs the pending timeouts.                                      *)
(***************************************************************************)
MaxLiveSingles == 2
MaxLiveJudges == 1
\* the picks in the menus, the fruitless ones too, are among the first operations
MaxLiveStarts == 3
\* after them, an answer and a callback for each question of both controllers
MaxLiveSteps == MaxLiveStarts + 4 * (MaxLiveSingles + MaxLiveJudges)

LiveStores(bank) ==
    {NoItem, JSONStringify([i \in 1..Len(bank) |-> Entry(bank[i], IF i = 1 THEN 2 ELSE 0)])}

InitLive ==
    \E s \in 1..MaxLiveSingles, j \in 0..MaxLiveJudges :
        \E stored \in LiveStores(BankOf(s, 0, j)) :
            LET parsed == ParseBank(BankOf(s, 0, j))
                ls == [k \in Keys |-> IF k = WRONG_SET_KEY THEN stored ELSE NoItem]
                W == testInit(init(AppInit(ls), "normal_", parsed), parsed)
            IN  /\ ctl = W.ctl
                /\ localStorage = W.ls
                /\ wrongQuestionCount = W.badge
                /\ pendingTimeouts = W.timers
                /\ testBrush = W.test
                /\ intervals = W.intervals
                /\ thrown = W.thrown
                /\ reviewed = [x \in Stems |-> -1]
                /\ runStart = StreaksIn(W.ls)
                /\ steps = 0
                /\ windowAnswer = BankOf(s, 0, j)

\* a category is picked in the menu of a controller not yet started
BeginSession(m, type) ==
    /\ ~ctl[m].isPracticeStarted
    /\ StartPracticeByTypeWithin(m, type, MaxLiveStarts)

\* the option that is the key of the question shown is picked
AnswerCorrectly(m) ==
    /\ ~ctl[m].currentQuestion.isNull
    /\ SelectAndCheckWithin(m, ctl[m].currentQuestion.correctAnswer, MaxLiveSteps)

AutoAdvance(m) == AutoNextFiresWithin(m, MaxLiveSteps)

NextLive ==
    \/ \E m \in Modes, type \in Types : BeginSession(m, type)
    \/ \E m \in Modes : AnswerCorrectly(m)
    \/ \E m \in Modes : AutoAdvance(m)

\* AnswerCorrectly(m) can be taken: a single or judge question is shown unanswered
AnswerEnabled(m) ==
    /\ ~ctl[m].currentQuestion.isNull
    /\ ~ctl[m].isAnswerChecked
    /\ ctl[m].currentQuestion.type # "multiple"
    /\ steps < MaxLiveSteps

\* a pending timeout is run by the browser; the user goes on answering.  The
\* weak fairness of AnswerCorrectly("wrong_") is written out, with
\* AnswerEnabled for its ENABLED, which TLC evaluates through the whole
\* update of the mistake set at a high cost.
SpecLive ==
    /\ InitLive
    /\ [][NextLive]_vars
    /\ WF_vars(AutoAdvance("normal_"))
    /\ WF_vars(AutoAdvance("wrong_"))
    /\ WF_vars(AnswerCorrectly("normal_"))
    /\ ([]<>~AnswerEnabled("wrong_")) \/ []<><<AnswerCorrectly("wrong_")>>_vars

SessionCompleted(m) ==
    LET c == ctl[m]
    IN  /\ c.currentQuestion.isNull
        /\ c.isPracticeStarted
        /\ c.stats.total = Len(c.practicePool)
        /\ c.stats.correct = c.stats.total
        /\ \A i \in 0..(Len(c.practicePool) - 1) :
            i \in DOMAIN c.answerHistory /\ c.answerHistory[i].isCorrect
        /\ localStorage[ProgressKey(m, c.practiceType)] = NoItem

\* C39: a session of single and judge questions whose questions are each
\* answered correctly through selectAndCheck, and whose scheduled callbacks
\* fire, completes with no nextQuestion call by the user: from any state with
\* a question shown, a state follows where no question is shown, every
\* position is recorded correct, stats.correct = stats.total and the
\* checkpoint of the session is gone.
C39_CorrectSessionCompletes ==
    \A m \in Modes : (~ctl[m].currentQuestion.isNull) ~> SessionCompleted(m)

\* C39 witness: normal practice by 'all' over two singles and a judge is
\* complete, and so is a mistake review that evicted an entry on its way.
C39_Witness ==
    /\ SessionCompleted("normal_")
    /\ Len(ctl["normal_"].practicePool) = 3
    /\ \E i \in 1..3 : ctl["normal_"].practicePool[i].type = "judge"
    /\ SessionCompleted("wrong_")
    /\ Len(ctl["wrong_"].practicePool) >= 2
    /\ Len(StoredWrongSet) < Len(ctl["wrong_"].practicePool)

====
